---- MODULE Spec2Model ----
(***************************************************************************)
(* A state-machine model of the aps repository: the apex trainer           *)
(* (aps/trainer/apex.py) and the decoding entry points of the ASR models   *)
(* (aps/asr/att.py, aps/asr/transducers.py).                               *)
(*                                                                         *)
(* Floating-point values are modelled as records [k, v]: k = "fin" with an *)
(* integer payload v, or one of the non-finite kinds "nan", "inf", "ninf". *)
(* Tensors of parameters and gradients are modelled by one such value.     *)
(***************************************************************************)
EXTENDS Integers, Sequences, FiniteSets, TLC

VARIABLES
    phase,        \* "none" | "ready" | "failed": outcome of ApexTrainer.__init__
    cfg,          \* constructor arguments and host facts of the last construction
    setup,        \* the steps setup_distributed has executed, in order
    task,         \* self.task: [wrapped, syncbn, amp]
    distributed,  \* self.distributed: "unset" | "yes" | "no"
    cpt_stats,    \* self.cpt_stats: the checkpoint loaded at construction, or NoCpt
    param,        \* the parameters of task.nnet
    grad,         \* the .grad of the parameters
    optimizer,    \* the optimizer's own state (its state_dict)
    amp_state,    \* apex.amp's global scaler state (amp.state_dict())
    lr_scheduler, \* the lr scheduler's state
    epoch,        \* the epoch counter of the training driver
    pc,           \* position inside train_one_step, "idle" between calls
    egs,          \* the batch of the current call
    stats,        \* the stats dictionary of the current call
    norm,         \* the local variable norm of the current call
    trace,        \* the operations the current (or last) call has run, in order
    ret,          \* the value the last call returned: "none" | "True" | "False"
    pre,          \* the parameters when the current (or last) call began
    drawn,        \* the Gaussian noise sample of the current call
    cpt,          \* the checkpoint store: the last saved checkpoint, or NoCpt
    atSave,       \* the trainer state when cpt was saved
    hist,         \* the batches, noise and losses of the calls since the save
    mode,         \* "live" | "replay": replay feeds the recorded batches again
    pos,          \* the next entry of hist to replay
    same,         \* every replayed call so far gave the recorded loss
    calls,        \* how many calls of train_one_step have begun
    norm_skipped, \* some call so far was skipped for a non-finite gradient norm
    dphase,       \* "none" | "built" | "failed": outcome of the ASR model's __init__
    asr,          \* the ASR model: its kind, special tokens, encoder layout, weights
    memo,         \* the first decoding call made on the model, with its result
    out,          \* the last decoding call made on the model, with its result
    bs,           \* the attention beam search in progress: its length bound,
                  \* the hypotheses of each utterance, the steps taken
    attn,         \* a multi-head attention module, the inputs of the last
                  \* call and what forward and torch_forward returned
    xl,           \* the last call of XlMultiheadAttention._rel_shift: its
                  \* input, its result and the logit forward builds with it
    layer,        \* a transformer encoder layer: the outcome of its __init__
    conv,         \* a ComplexConvXd layer, its last input and what it returned
    enh,          \* an enhancement front-end: its configuration, its
                  \* BatchNorm statistics, the last two forward calls
    sep,          \* a Phasen model: the outcome of its __init__
    masks,       \* the masks of one batch: the lengths, what padding_mask and prep_sub_mask returned, the weights under both
    pconv,       \* a PhasenConv2d layer: its kernel, its padding, the bins of its last input and output
    stack        \* ApsTransformerEncoder: the stack of layers and its last forward

(***************************************************************************)
(* Bounds of the model                                                     *)
(***************************************************************************)
ParamMod == 3
CtrMod == 2
MaxDevices == 2
MaxEpoch == 1
MaxHist == 2
MaxCalls == 3
VocabSize == 3
MaxT == 2
MaxBeam == 2
MaxSym == 2
MaxId == 1
MaxWeight == 1
AttnLen == 2
MaxBatch == 3
MaxKernel == 4
MaxBins == 3
ShiftLen == 3
MaxChan == 2
MaxFwd == 2
SpectraFilters == 2
MaxLayers == 3

\* ------------------------------------------------------------------ values

Fin(n) == [k |-> "fin", v |-> n]
NaN == [k |-> "nan", v |-> 0]
PosInf == [k |-> "inf", v |-> 0]
NegInf == [k |-> "ninf", v |-> 0]

\* A finiteness test that only rejects the infinities.
isfinite_nan_passes(x) == x.k \in {"fin", "nan"}

\* math.isfinite
isfinite(x) == x.k = "fin"

NoCpt ==
    [ epoch |-> -1, amp_state_dict |-> 0, model_state_dict |-> [k |-> "absent", v |-> 0],
      optim_state_dict |-> 0, lr_scheduler_dict |-> 0 ]
NoEgs == [x |-> 0, l |-> "fin", g |-> "fin"]

\* A batch: its content x, the kind of loss the forward pass gives on it and
\* the kind of gradient the backward pass gives on it.
EgsSet ==
    { [x |-> 0, l |-> "fin", g |-> "fin"],
      [x |-> 1, l |-> "fin", g |-> "fin"],
      [x |-> 1, l |-> "fin", g |-> "inf"],
      [x |-> 0, l |-> "nan", g |-> "fin"],
      [x |-> 0, l |-> "inf", g |-> "fin"],
      [x |-> 0, l |-> "ninf", g |-> "fin"] }

NoiseSet == {0, 1}

Backends == {"torch", "none", "horovod"}
Periods == {"epoch", "step"}

\* The configurations of the runs that save and resume: a host on which the
\* construction succeeds.
ResumeCfgSet ==
    [ backend : {"torch"},
      apex_available : {TRUE},
      cuda_devices : 0..MaxDevices,
      clip_gradient : BOOLEAN,
      gaussian_noise_std : BOOLEAN,
      lr_scheduler_period : {"step"},
      resume : BOOLEAN ]

CfgSet ==
    [ backend : Backends,
      apex_available : BOOLEAN,
      cuda_devices : 0..MaxDevices,
      clip_gradient : BOOLEAN,
      gaussian_noise_std : BOOLEAN,
      lr_scheduler_period : Periods,
      resume : BOOLEAN ]

NoCfg ==
    [ backend |-> "none", apex_available |-> FALSE, cuda_devices |-> 0,
      clip_gradient |-> FALSE, gaussian_noise_std |-> FALSE,
      lr_scheduler_period |-> "epoch", resume |-> FALSE ]

ctor == <<phase, cfg, setup, task, distributed, cpt_stats>>
model == <<param, grad, optimizer, amp_state, lr_scheduler>>
call == <<pc, egs, stats, norm, trace, ret, pre, drawn>>
store == <<cpt, atSave, epoch>>
replay == <<hist, mode, pos, same>>
locals == <<egs, stats, norm, drawn>>
trainer_vars == <<ctor, model, call, store, replay, calls, norm_skipped>>
dec_vars == <<dphase, asr, memo, out>>
search_vars == <<bs>>
attn_vars == <<attn>>
xl_vars == <<xl>>
layer_vars == <<layer>>
conv_vars == <<conv>>
enh_vars == <<enh>>
sep_vars == <<sep>>
stack_vars == <<stack>>
pconv_vars == <<pconv>>
mask_vars == <<masks>>
\* The state of the library modules other than the trainer and the ASR model.
lib_vars ==
    <<search_vars, attn_vars, xl_vars, layer_vars, conv_vars, enh_vars, sep_vars, mask_vars, pconv_vars, stack_vars>>
\* What the actions of each part leave alone.
search_frame ==
    <<trainer_vars, dec_vars, attn_vars, xl_vars, layer_vars, conv_vars, enh_vars, sep_vars, mask_vars, pconv_vars, stack_vars>>
attn_frame ==
    <<trainer_vars, dec_vars, search_vars, xl_vars, layer_vars, conv_vars, enh_vars, sep_vars, mask_vars, pconv_vars, stack_vars>>
xl_frame ==
    <<trainer_vars, dec_vars, search_vars, attn_vars, layer_vars, conv_vars, enh_vars, sep_vars, mask_vars, pconv_vars, stack_vars>>
layer_frame ==
    <<trainer_vars, dec_vars, search_vars, attn_vars, xl_vars, conv_vars, enh_vars, sep_vars, mask_vars, pconv_vars, stack_vars>>
conv_frame ==
    <<trainer_vars, dec_vars, search_vars, attn_vars, xl_vars, layer_vars, enh_vars, sep_vars, mask_vars, pconv_vars, stack_vars>>
enh_frame ==
    <<trainer_vars, dec_vars, search_vars, attn_vars, xl_vars, layer_vars, conv_vars, sep_vars, mask_vars, pconv_vars, stack_vars>>
sep_frame ==
    <<trainer_vars, dec_vars, search_vars, attn_vars, xl_vars, layer_vars, conv_vars, enh_vars, mask_vars, pconv_vars, stack_vars>>
mask_frame ==
    <<trainer_vars, dec_vars, search_vars, attn_vars, xl_vars, layer_vars, conv_vars, enh_vars, sep_vars, pconv_vars, stack_vars>>
pconv_frame ==
    <<trainer_vars, dec_vars, search_vars, attn_vars, xl_vars, layer_vars, conv_vars, enh_vars, sep_vars, mask_vars, stack_vars>>
stack_frame ==
    <<trainer_vars, dec_vars, search_vars, attn_vars, xl_vars, layer_vars, conv_vars, enh_vars, sep_vars, mask_vars, pconv_vars>>

Absent == [k |-> "absent", v |-> 0]
AttributeError == [k |-> "error", v |-> 0]
NoStats == [loss |-> Absent, norm |-> Absent, rate |-> Absent]
NoTask == [wrapped |-> FALSE, syncbn |-> FALSE, amp |-> FALSE]

\* ------------------------------------------------- ApexTrainer.__init__

\* The backend check alone, without the test of apex_available.
InitChecks_backend_only(c) == c.backend \in {"torch", "none"}

\* The two checks made after the base constructor returns.
InitChecksPass(c) ==
    /\ c.backend \in {"torch", "none"}
    /\ c.apex_available

\* Trainer.__init__ of the base class: a fresh optimizer and scheduler, or,
\* with resume, the states of the loaded checkpoint.
BaseInit(c) ==
    IF c.resume
    THEN [ param |-> cpt.model_state_dict,
           optimizer |-> cpt.optim_state_dict,
           lr_scheduler |-> cpt.lr_scheduler_dict,
           epoch |-> cpt.epoch,
           cpt_stats |-> cpt ]
    ELSE [ param |-> Fin(0), optimizer |-> 0, lr_scheduler |-> 0,
           epoch |-> 0, cpt_stats |-> NoCpt ]

\* setup_distributed with the device test off by one (> 2 for >= 2).
setup_distributed_off_by_one(c, loaded) ==
    LET ddp == c.cuda_devices > 2
    IN  [ setup |-> <<"syncbn", "amp_init">>
                      \o (IF ddp THEN <<"ddp">> ELSE <<>>)
                      \o (IF loaded # NoCpt THEN <<"amp_restore">> ELSE <<>>),
          task |-> [wrapped |-> ddp, syncbn |-> TRUE, amp |-> TRUE],
          distributed |-> IF ddp THEN "yes" ELSE "no",
          amp_state |-> IF loaded # NoCpt THEN loaded.amp_state_dict ELSE 0 ]

\* setup_distributed: sync-BN conversion, amp initialization, the DDP wrap
\* for two devices or more, and the restore of the amp state.
setup_distributed(c, loaded) ==
    LET ddp == c.cuda_devices >= 2
    IN  [ setup |-> <<"syncbn", "amp_init">>
                      \o (IF ddp THEN <<"ddp">> ELSE <<>>)
                      \o (IF loaded # NoCpt THEN <<"amp_restore">> ELSE <<>>),
          task |-> [wrapped |-> ddp, syncbn |-> TRUE, amp |-> TRUE],
          distributed |-> IF ddp THEN "yes" ELSE "no",
          amp_state |-> IF loaded # NoCpt THEN loaded.amp_state_dict ELSE 0 ]

ApexTrainer_init(c) ==
    /\ pc = "idle"
    /\ c.resume => cpt # NoCpt
    /\ phase = "ready" => c = [cfg EXCEPT !.resume = TRUE]
    /\ cfg' = c
    /\ UNCHANGED <<dec_vars, lib_vars>>
    /\ IF InitChecksPass(c)
       THEN LET b == BaseInit(c)
                s == setup_distributed(c, b.cpt_stats)
            IN  /\ phase' = "ready"
                /\ param' = b.param
                /\ optimizer' = b.optimizer
                /\ lr_scheduler' = b.lr_scheduler
                /\ epoch' = b.epoch
                /\ cpt_stats' = b.cpt_stats
                /\ setup' = s.setup
                /\ task' = s.task
                /\ distributed' = s.distributed
                /\ amp_state' = s.amp_state
                /\ grad' = Absent
                /\ stats' = NoStats
                /\ norm' = Absent
                /\ trace' = <<>>
                /\ ret' = "none"
                /\ pre' = b.param
                /\ mode' = IF mode \in {"record", "replay"} /\ hist # <<>>
                           THEN "replay" ELSE "live"
                /\ pos' = 1
                /\ same' = TRUE
                /\ UNCHANGED <<pc, egs, drawn, cpt, atSave, hist, calls,
                               norm_skipped>>
       ELSE /\ phase' = "failed"
            /\ UNCHANGED <<setup, task, distributed, cpt_stats, model, call,
                           store, replay, calls, norm_skipped>>

\* ------------------------------------------------- train_one_step

\* The forward pass of the task on a batch: the scalar loss.
Loss(p, e) ==
    IF e.l = "nan" THEN NaN
    ELSE IF e.l = "inf" THEN PosInf
    ELSE IF e.l = "ninf" THEN NegInf
    ELSE IF ~isfinite(p) THEN NaN
    ELSE Fin(p.v + e.x)

\* The scaled backward pass: the gradient of the loss.
Backward(p, e) ==
    IF e.g # "fin" THEN PosInf
    ELSE IF ~isfinite(p) THEN NaN
    ELSE Fin((p.v + 2 * e.x) % ParamMod)

\* backward() adds the new gradient to the one already in .grad (a .grad
\* that was never set takes the new gradient as it is).
Accumulate(old, g) ==
    IF old.k = "absent" THEN g
    ELSE IF old.k = "nan" \/ g.k = "nan" THEN NaN
    ELSE IF old.k = "fin" /\ g.k = "fin" THEN Fin((old.v + g.v) % ParamMod)
    ELSE IF old.k = "fin" THEN g
    ELSE IF g.k = "fin" THEN old
    ELSE IF old.k = g.k THEN old
    ELSE NaN

\* clip_grad_norm_: the total norm it returns, and the gradient it leaves.
GradNorm(g) == g
ClippedGrad(g) ==
    IF ~isfinite(g) THEN NaN
    ELSE IF g.v > 1 THEN Fin(1) ELSE g

\* optimizer.param_groups[0]["lr"], set by the scheduler.
Rate(s) == 1 + s

\* optimizer.step(): the parameters after the update.
OptimizerStep(p, g, o, s) ==
    IF ~isfinite(p) \/ ~isfinite(g) THEN NaN
    ELSE Fin((p.v + Rate(s) * g.v + o) % ParamMod)

\* add_gaussian_noise: a random sample added to every parameter.
add_gaussian_noise(p, n) ==
    IF ~isfinite(p) THEN p ELSE Fin((p.v + n) % ParamMod)

\* The end of a call, seen by the harness that records and replays batches.
EndCall ==
    /\ pc' = "idle"
    /\ egs' = NoEgs
    /\ stats' = NoStats
    /\ norm' = Absent
    /\ drawn' = 0
    /\ IF mode = "replay"
       THEN /\ same' = (same /\ stats.loss = hist[pos].loss)
            /\ pos' = pos + 1
            /\ mode' = IF pos + 1 > Len(hist) THEN "live" ELSE "replay"
            /\ hist' = hist
       ELSE /\ hist' = IF mode = "record" /\ Len(hist) < MaxHist
                       THEN Append(hist, [egs |-> egs, noise |-> drawn,
                                          loss |-> stats.loss])
                       ELSE hist
            /\ UNCHANGED <<same, pos, mode>>

\* The call started without zeroing the gradients.
ZeroGrad_keeps_grad(e) ==
    /\ phase = "ready"
    /\ pc = "idle"
    /\ calls < MaxCalls
    /\ calls' = calls + 1
    /\ mode = "replay" => e = hist[pos].egs
    /\ egs' = e
    /\ grad' = grad
    /\ pre' = param
    /\ trace' = <<"zero_grad">>
    /\ ret' = "none"
    /\ stats' = NoStats
    /\ norm' = Absent
    /\ drawn' = 0
    /\ pc' = "forward"
    /\ UNCHANGED <<dec_vars, lib_vars>>
    /\ UNCHANGED <<ctor, param, optimizer, amp_state, lr_scheduler, store,
                   replay, norm_skipped>>

\* line 115: self.optimizer.zero_grad()
ZeroGrad(e) ==
    /\ phase = "ready"
    /\ pc = "idle"
    /\ calls < MaxCalls
    /\ calls' = calls + 1
    /\ mode = "replay" => e = hist[pos].egs
    /\ egs' = e
    /\ grad' = Fin(0)
    /\ pre' = param
    /\ trace' = <<"zero_grad">>
    /\ ret' = "none"
    /\ stats' = NoStats
    /\ norm' = Absent
    /\ drawn' = 0
    /\ pc' = "forward"
    /\ UNCHANGED <<dec_vars, lib_vars>>
    /\ UNCHANGED <<ctor, param, optimizer, amp_state, lr_scheduler, store,
                   replay, norm_skipped>>

\* lines 117-118: stats = self.task(egs, ssr=self.ssr)
Forward ==
    /\ pc = "forward"
    /\ stats' = [stats EXCEPT !.loss = Loss(param, egs)]
    /\ trace' = Append(trace, "forward")
    /\ pc' = "check_loss"
    /\ UNCHANGED <<dec_vars, lib_vars>>
    /\ UNCHANGED <<ctor, model, egs, norm, ret, pre, drawn, store, replay, calls,
                   norm_skipped>>

\* The backward pass left out: the step follows the forward pass.
ScaledBackward_missing ==
    /\ pc = "check_loss"
    /\ isfinite(stats.loss)
    /\ pc' = "clip"
    /\ UNCHANGED <<dec_vars, lib_vars>>
    /\ UNCHANGED <<ctor, model, egs, stats, norm, trace, ret, pre, drawn,
                    store, replay, calls, norm_skipped>>

\* lines 120-123: the backward pass under apex.amp.scale_loss
ScaledBackward ==
    /\ pc = "check_loss"
    /\ isfinite(stats.loss)
    /\ grad' = Accumulate(grad, Backward(param, egs))
    /\ amp_state' = (amp_state + 1) % CtrMod
    /\ trace' = Append(trace, "backward")
    /\ pc' = "clip"
    /\ UNCHANGED <<dec_vars, lib_vars>>
    /\ UNCHANGED <<ctor, param, optimizer, lr_scheduler, egs, stats, norm,
                   ret, pre, drawn, store, replay, calls, norm_skipped>>

\* lines 124-126: the loss is not finite
SkipLoss ==
    /\ pc = "check_loss"
    /\ ~isfinite(stats.loss)
    /\ trace' = Append(trace, "log")
    /\ ret' = "False"
    /\ EndCall
    /\ UNCHANGED <<dec_vars, lib_vars>>
    /\ UNCHANGED <<ctor, model, pre, store, calls, norm_skipped>>

\* The clipping applied to the parameters themselves instead of their .grad.
ClipGradient_on_params ==
    /\ pc = "clip"
    /\ IF cfg.clip_gradient
       THEN /\ norm' = GradNorm(grad)
            /\ param' = ClippedGrad(param)
            /\ trace' = Append(trace, "clip")
       ELSE /\ norm' = Fin(-1)
            /\ UNCHANGED <<param, trace>>
    /\ pc' = "check_norm"
    /\ UNCHANGED <<dec_vars, lib_vars>>
    /\ UNCHANGED <<ctor, grad, optimizer, amp_state, lr_scheduler, egs,
                   stats, ret, pre, drawn, store, replay, calls, norm_skipped>>

\* lines 129-133: norm = -1, then clip_grad_norm_ when clip_gradient is set
ClipGradient ==
    /\ pc = "clip"
    /\ IF cfg.clip_gradient
       THEN /\ norm' = GradNorm(grad)
            /\ grad' = ClippedGrad(grad)
            /\ trace' = Append(trace, "clip")
       ELSE /\ norm' = Fin(-1)
            /\ UNCHANGED <<grad, trace>>
    /\ pc' = "check_norm"
    /\ UNCHANGED <<dec_vars, lib_vars>>
    /\ UNCHANGED <<ctor, param, optimizer, amp_state, lr_scheduler, egs,
                   stats, ret, pre, drawn, store, replay, calls, norm_skipped>>

\* The optimizer step without the test of the norm before it.
Step_unchecked ==
    /\ pc = "check_norm"
    /\ param' = OptimizerStep(param, grad, optimizer, lr_scheduler)
    /\ optimizer' = (optimizer + 1) % CtrMod
    /\ trace' = Append(trace, "step")
    /\ pc' = "noise"
    /\ UNCHANGED <<dec_vars, lib_vars>>
    /\ UNCHANGED <<ctor, grad, amp_state, lr_scheduler, egs, stats, norm,
                   ret, pre, drawn, store, replay, calls, norm_skipped>>

\* lines 135-136: self.optimizer.step()
Step ==
    /\ pc = "check_norm"
    /\ isfinite(norm)
    /\ param' = OptimizerStep(param, grad, optimizer, lr_scheduler)
    /\ optimizer' = (optimizer + 1) % CtrMod
    /\ trace' = Append(trace, "step")
    /\ pc' = "noise"
    /\ UNCHANGED <<dec_vars, lib_vars>>
    /\ UNCHANGED <<ctor, grad, amp_state, lr_scheduler, egs, stats, norm,
                   ret, pre, drawn, store, replay, calls, norm_skipped>>

\* lines 145-147: the gradient norm is not finite
SkipNorm ==
    /\ pc = "check_norm"
    /\ ~isfinite(norm)
    /\ trace' = Append(trace, "log")
    /\ ret' = "False"
    /\ norm_skipped' = TRUE
    /\ EndCall
    /\ UNCHANGED <<dec_vars, lib_vars>>
    /\ UNCHANGED <<ctor, model, pre, store, calls>>

\* lines 137-138: add_gaussian_noise when gaussian_noise_std is set
GaussianNoise ==
    /\ pc = "noise"
    /\ IF cfg.gaussian_noise_std
       THEN \E n \in NoiseSet :
                /\ mode = "replay" => n = hist[pos].noise
                /\ param' = add_gaussian_noise(param, n)
                /\ drawn' = n
                /\ trace' = Append(trace, "noise")
       ELSE UNCHANGED <<param, drawn, trace>>
    /\ pc' = "report"
    /\ UNCHANGED <<dec_vars, lib_vars>>
    /\ UNCHANGED <<ctor, grad, optimizer, amp_state, lr_scheduler, egs,
                   stats, norm, ret, pre, store, replay, calls, norm_skipped>>

\* The norm written into the stats without the test against -1.
Report_norm_always ==
    /\ pc = "report"
    /\ stats' = [stats EXCEPT !.norm = norm,
                              !.rate = Fin(Rate(lr_scheduler))]
    /\ trace' = Append(trace, "report")
    /\ pc' = "sched"
    /\ UNCHANGED <<dec_vars, lib_vars>>
    /\ UNCHANGED <<ctor, model, egs, norm, ret, pre, drawn, store, replay, calls,
                   norm_skipped>>

\* lines 139-142: the stats get norm and rate, and are reported
Report ==
    /\ pc = "report"
    /\ stats' = [stats EXCEPT
                   !.norm = IF norm # Fin(-1) THEN norm ELSE Absent,
                   !.rate = Fin(Rate(lr_scheduler))]
    /\ trace' = Append(trace, "report")
    /\ pc' = "sched"
    /\ UNCHANGED <<dec_vars, lib_vars>>
    /\ UNCHANGED <<ctor, model, egs, norm, ret, pre, drawn, store, replay, calls,
                   norm_skipped>>

\* lines 143-144: self.lr_scheduler_step(None, end_at="step"); return True
SchedulerStep ==
    /\ pc = "sched"
    /\ lr_scheduler' = IF cfg.lr_scheduler_period = "step"
                       THEN (lr_scheduler + 1) % CtrMod
                       ELSE lr_scheduler
    /\ trace' = Append(trace, "sched")
    /\ ret' = "True"
    /\ EndCall
    /\ UNCHANGED <<dec_vars, lib_vars>>
    /\ UNCHANGED <<ctor, param, grad, optimizer, amp_state, pre, store,
                   calls, norm_skipped>>

\* ------------------------------------------------- checkpoints

\* self.task.module.nnet and self.task.nnet: only a wrapped task has .module,
\* and the wrapper itself has no .nnet.
task_module_nnet == IF task.wrapped THEN param ELSE AttributeError
task_nnet == IF task.wrapped THEN AttributeError ELSE param

\* checkpoint_states saving the state of a fresh optimizer.
checkpoint_states_fresh_optim(e) ==
    [ epoch |-> e,
      amp_state_dict |-> amp_state,
      model_state_dict |->
          IF distributed = "yes" THEN task_module_nnet ELSE task_nnet,
      optim_state_dict |-> 0,
      lr_scheduler_dict |-> lr_scheduler ]

checkpoint_states(e) ==
    [ epoch |-> e,
      amp_state_dict |-> amp_state,
      model_state_dict |->
          IF distributed = "yes" THEN task_module_nnet ELSE task_nnet,
      optim_state_dict |-> optimizer,
      lr_scheduler_dict |-> lr_scheduler ]

\* The driver ends an epoch and saves the states of the trainer.
SaveCheckpoint ==
    /\ phase = "ready"
    /\ pc = "idle"
    /\ mode # "replay"
    /\ epoch < MaxEpoch
    /\ epoch' = epoch + 1
    /\ cpt' = checkpoint_states(epoch + 1)
    /\ atSave' = [ param |-> param, optimizer |-> optimizer,
                   amp_state |-> amp_state, lr_scheduler |-> lr_scheduler,
                   epoch |-> epoch + 1 ]
    /\ hist' = <<>>
    /\ mode' = "record"
    /\ UNCHANGED <<dec_vars, lib_vars>>
    /\ UNCHANGED <<ctor, model, call, pos, same, calls, norm_skipped>>


\* ------------------------------------------------- ASR models

Tokens == 0..(VocabSize - 1)
Ids == (0 - 1)..MaxId
Features == 0..1
\* An utterance: Ti frames of features (Ti x F), the feature alternating
\* from frame to frame.
Inputs == { [t \in 1..n |-> (f + t) % 2] : n \in 1..MaxT, f \in Features }

\* An exception: its type, its message and the values the message shows.
Err(type, msg, args) == [type |-> type, msg |-> msg, args |-> args]
NoErr == Err("none", "", <<>>)

NoAsr ==
    [ kind |-> "none", sos |-> 0 - 1, eos |-> 0 - 1, blank |-> 0 - 1,
      is_xfmr_encoder |-> FALSE, w |-> 0, err |-> NoErr ]

Min(a, b) == IF a <= b THEN a ELSE b

\* An AttASR.__init__ that looks at eos only.
AttASR_init_eos_only(sos, eos, w) ==
    /\ dphase = "none"
    /\ IF eos < 0
       THEN /\ dphase' = "failed"
            /\ asr' = [asr EXCEPT !.err = Err("RuntimeError",
                                              "Unsupported SOS/EOS value",
                                              <<sos, eos>>)]
       ELSE /\ dphase' = "built"
            /\ asr' = [ kind |-> "att", sos |-> sos, eos |-> eos,
                        blank |-> 0 - 1, is_xfmr_encoder |-> FALSE, w |-> w,
                        err |-> NoErr ]
    /\ UNCHANGED <<memo, out, trainer_vars, lib_vars>>

\* AttASR.__init__: sos and eos must not be negative.
AttASR_init(sos, eos, w) ==
    /\ dphase = "none"
    /\ IF eos < 0 \/ sos < 0
       THEN /\ dphase' = "failed"
            /\ asr' = [asr EXCEPT !.err = Err("RuntimeError",
                                              "Unsupported SOS/EOS value",
                                              <<sos, eos>>)]
       ELSE /\ dphase' = "built"
            /\ asr' = [ kind |-> "att", sos |-> sos, eos |-> eos,
                        blank |-> 0 - 1, is_xfmr_encoder |-> FALSE, w |-> w,
                        err |-> NoErr ]
    /\ UNCHANGED <<memo, out, trainer_vars, lib_vars>>

\* support_xfmr_encoder(enc_type): the transformer encoders.
support_xfmr_encoder(enc_type) == enc_type = "xfmr"

\* TransducerASRBase.__init__ and TransducerASR.__init__
TransducerASR_init(blank, enc_type, dec_type, w) ==
    /\ dphase = "none"
    /\ IF blank < 0
       THEN /\ dphase' = "failed"
            /\ asr' = [asr EXCEPT !.err = Err("RuntimeError",
                                              "Unsupported blank value",
                                              <<blank>>)]
       ELSE IF dec_type # "rnn"
       THEN /\ dphase' = "failed"
            /\ asr' = [asr EXCEPT !.err = Err("ValueError",
                                              "currently decoder must be rnn",
                                              <<>>)]
       ELSE /\ dphase' = "built"
            /\ asr' = [ kind |-> "transducer", sos |-> 0 - 1, eos |-> 0 - 1,
                        blank |-> blank,
                        is_xfmr_encoder |-> support_xfmr_encoder(enc_type),
                        w |-> w, err |-> NoErr ]
    /\ UNCHANGED <<memo, out, trainer_vars, lib_vars>>

\* TransducerASRBase.__init__ and XfmrTransducerASR.__init__
XfmrTransducerASR_init(blank, enc_type, dec_type, w) ==
    /\ dphase = "none"
    /\ IF blank < 0
       THEN /\ dphase' = "failed"
            /\ asr' = [asr EXCEPT !.err = Err("RuntimeError",
                                              "Unsupported blank value",
                                              <<blank>>)]
       ELSE IF dec_type # "xfmr"
       THEN /\ dphase' = "failed"
            /\ asr' = [asr EXCEPT !.err = Err("ValueError",
                                              "currently decoder must be xfmr",
                                              <<>>)]
       ELSE /\ dphase' = "built"
            /\ asr' = [ kind |-> "xfmr_transducer", sos |-> 0 - 1,
                        eos |-> 0 - 1, blank |-> blank,
                        is_xfmr_encoder |-> support_xfmr_encoder(enc_type),
                        w |-> w, err |-> NoErr ]
    /\ UNCHANGED <<memo, out, trainer_vars, lib_vars>>

\* ------------------------------------------------- encoder and scores

\* self.encoder(x, None): a transformer encoder returns Ti x N x D, the
\* others return N x Ti x D.
Encoder(a, x) ==
    [ layout |-> IF a.is_xfmr_encoder THEN "TND" ELSE "NTD",
      frames |-> [t \in 1..Len(x) |-> (x[t] + a.w) % 2],
      transposes |-> 0 ]

\* enc_out.transpose(0, 1); transposes counts the calls made on the tensor.
Transpose(e) ==
    [e EXCEPT !.layout = IF @ = "TND" THEN "NTD" ELSE "TND",
              !.transposes = @ + 1]

\* The frames a decoder reads from an encoder output of one utterance: all of
\* them in the layout it expects, and a single time step in the other layout.
DecoderFrames(e, expected) ==
    IF e.layout = expected THEN e.frames ELSE <<e.frames[1]>>

\* The joint network's log-probability of token v at a frame of feature f
\* after the token prev.
Joint(w, f, prev, v) ==
    0 - ((w + 2 * f + prev * prev + v * (1 + f + prev) + 2 * v * v * w) % 3)

\* The attention decoder's log-probability of token v after the history.
AttLogp(w, frames, trans, v) ==
    LET f == frames[Min(Len(trans), Len(frames))]
        prev == trans[Len(trans)]
    IN  0 - ((w + f + 2 * prev + v * (2 + f) + prev * v + Len(trans)) % 3)

\* The external language model's log-probability of v after prev.
LmLogp(lm, prev, v) ==
    IF lm = "none" THEN 0 ELSE 0 - ((2 * prev + 2 * v + 1) % 3)

\* ------------------------------------------------- search (decoders)

\* The best of a set of candidates: the highest score, ties broken by the
\* order of enumeration, towards its start ("low") or its end ("high").
Best(S, tb) ==
    CHOOSE c \in S : \A d \in S :
        \/ c.score > d.score
        \/ /\ c.score = d.score
           /\ IF tb = "low" THEN c.ord <= d.ord ELSE c.ord >= d.ord

\* The k best candidates in rank order; a candidate equal in place to one
\* already kept (same tokens, same frame) is merged into it.
RECURSIVE TopK(_, _, _, _)
TopK(S, k, tb, n) ==
    IF S = {} \/ k = 0 THEN <<>>
    ELSE LET b == Best(S, tb)
             rest == { c \in S : c.trans # b.trans \/ c.t # b.t }
         IN  <<[b EXCEPT !.ord = n]>> \o TopK(rest, k - 1, tb, n + 1)

SeqToSet(q) == { q[i] : i \in 1..Len(q) }

\* --- transducer: greedy search

\* The highest-scoring token (the first one among equals), and whether
\* another token has the same score.
ArgMax(w, f, prev) ==
    CHOOSE v \in Tokens : \A u \in Tokens :
        \/ Joint(w, f, prev, v) > Joint(w, f, prev, u)
        \/ (Joint(w, f, prev, v) = Joint(w, f, prev, u) /\ v <= u)
Tied(w, f, prev) ==
    \E u \in Tokens :
        /\ u # ArgMax(w, f, prev)
        /\ Joint(w, f, prev, u) = Joint(w, f, prev, ArgMax(w, f, prev))

RECURSIVE GreedyFrom(_, _, _, _, _, _)
GreedyFrom(w, frames, blank, t, prev, acc) ==
    IF t > Len(frames) \/ Len(acc.trans) >= MaxSym THEN acc
    ELSE LET v == ArgMax(w, frames[t], prev)
             a == [ trans |-> IF v = blank THEN acc.trans
                              ELSE Append(acc.trans, v),
                    score |-> acc.score + Joint(w, frames[t], prev, v),
                    tie |-> acc.tie \/ Tied(w, frames[t], prev) ]
         IN  IF v = blank
             THEN GreedyFrom(w, frames, blank, t + 1, prev, a)
             ELSE GreedyFrom(w, frames, blank, t, v, a)

\* decoder.greedy_search(enc_out, blank=blank)
DecoderGreedy(w, frames, blank) ==
    GreedyFrom(w, frames, blank, 1, blank,
               [trans |-> <<>>, score |-> 0, tie |-> FALSE])

\* --- transducer: beam search

TFinished(h, T) == h.t > T \/ Len(h.trans) >= MaxSym

\* The extensions of the hypotheses by every token: blank moves to the next
\* frame, another token is appended to the output.
TExpand(w, frames, blank, lm, lm_weight, hyps) ==
    UNION { IF TFinished(hyps[i], Len(frames))
            THEN { [hyps[i] EXCEPT !.ord = (i - 1) * VocabSize] }
            ELSE { LET h == hyps[i]
                       am == Joint(w, frames[h.t], h.prev, v)
                   IN  IF v = blank
                       THEN [ trans |-> h.trans, t |-> h.t + 1, prev |-> h.prev,
                              score |-> h.score + am,
                              ord |-> (i - 1) * VocabSize + v ]
                       ELSE [ trans |-> Append(h.trans, v), t |-> h.t,
                              prev |-> v,
                              score |-> h.score + am
                                        + lm_weight * LmLogp(lm, h.prev, v),
                              ord |-> (i - 1) * VocabSize + v ]
                   : v \in Tokens }
          : i \in 1..Len(hyps) }

RECURSIVE TBeamFrom(_, _, _, _, _, _, _, _)
TBeamFrom(w, frames, blank, lm, lm_weight, beam, tb, hyps) ==
    IF \A i \in 1..Len(hyps) : TFinished(hyps[i], Len(frames)) THEN hyps
    ELSE TBeamFrom(w, frames, blank, lm, lm_weight, beam, tb,
                   TopK(TExpand(w, frames, blank, lm, lm_weight, hyps),
                        beam, tb, 1))

\* The final ranking: by score, or by score per token when normalized.
Better(a, b, normalized) ==
    IF normalized
    THEN a.score * (Len(b.trans) + 1) > b.score * (Len(a.trans) + 1)
    ELSE a.score > b.score

Top1(hyps, normalized) ==
    LET S == SeqToSet(hyps)
    IN  CHOOSE a \in S : \A b \in S :
            \/ a = b
            \/ Better(a, b, normalized)
            \/ (~Better(b, a, normalized) /\ a.ord < b.ord)

\* decoder.beam_search(enc_out, beam, blank, nbest, lm, lm_weight, normalized)
DecoderBeam(w, frames, beam, blank, nbest, lm, lm_weight, normalized, tb) ==
    LET start == <<[ trans |-> <<>>, t |-> 1, prev |-> blank, score |-> 0,
                     ord |-> 1 ]>>
        final == TBeamFrom(w, frames, blank, lm, lm_weight, beam, tb, start)
    IN  Top1(final, normalized).trans

\* --- attention decoder: beam search

AFinished(h, max_len) == h.done \/ h.t > max_len

AExpand(w, frames, eos, lm, lm_weight, max_len, hyps) ==
    UNION { IF AFinished(hyps[i], max_len)
            THEN { [hyps[i] EXCEPT !.ord = (i - 1) * VocabSize] }
            ELSE { LET h == hyps[i]
                   IN  [ trans |-> Append(h.trans, v), t |-> h.t + 1,
                         done |-> v = eos,
                         score |-> h.score + AttLogp(w, frames, h.trans, v)
                                   + lm_weight
                                     * LmLogp(lm, h.trans[Len(h.trans)], v),
                         ord |-> (i - 1) * VocabSize + v ]
                   : v \in Tokens }
          : i \in 1..Len(hyps) }

RECURSIVE ABeamFrom(_, _, _, _, _, _, _, _, _)
ABeamFrom(w, frames, eos, lm, lm_weight, max_len, beam, tb, hyps) ==
    IF \A i \in 1..Len(hyps) : AFinished(hyps[i], max_len) THEN hyps
    ELSE ABeamFrom(w, frames, eos, lm, lm_weight, max_len, beam, tb,
                   TopK(AExpand(w, frames, eos, lm, lm_weight, max_len, hyps),
                        beam, tb, 1))

\* decoder.beam_search / decoder.beam_search_vectorized: the tokens of the
\* best hypothesis.
AttDecoderBeam(w, frames, beam, lm, lm_weight, nbest, max_len, sos, eos, normalized, tb) ==
    LET start == <<[ trans |-> <<sos>>, t |-> 1, done |-> FALSE,
                     score |-> 0, ord |-> 1 ]>>
        final == ABeamFrom(w, frames, eos, lm, lm_weight, max_len, beam, tb,
                           start)
    IN  Top1(final, normalized).trans

\* ------------------------------------------------- decoding entry points

\* TransducerASR._dec_prep: the encoder output, transposed to N x Ti x D when
\* the encoder is a transformer.
TransducerASR_dec_prep(a, x) ==
    LET enc_out == Encoder(a, x)
    IN  IF a.is_xfmr_encoder THEN Transpose(enc_out) ELSE enc_out

\* An XfmrTransducerASR._dec_prep that transposes as TransducerASR does.
XfmrTransducerASR_dec_prep_batch_first(a, x) ==
    LET enc_out == Encoder(a, x)
    IN  IF a.is_xfmr_encoder THEN Transpose(enc_out) ELSE enc_out

\* XfmrTransducerASR._dec_prep: the encoder output, transposed to Ti x N x D
\* when the encoder is not a transformer.
XfmrTransducerASR_dec_prep(a, x) ==
    LET enc_out == Encoder(a, x)
    IN  IF ~a.is_xfmr_encoder THEN Transpose(enc_out) ELSE enc_out

\* The layout the decoder of each model reads.
DecoderLayout(a) == IF a.kind = "xfmr_transducer" THEN "TND" ELSE "NTD"

dec_prep(a, x) ==
    IF a.kind = "xfmr_transducer" THEN XfmrTransducerASR_dec_prep(a, x)
    ELSE IF a.kind = "transducer" THEN TransducerASR_dec_prep(a, x)
    ELSE Encoder(a, x)

\* TransducerASR.greedy_search and XfmrTransducerASR.greedy_search
greedy_search(a, x) ==
    LET enc_out == dec_prep(a, x)
    IN  DecoderGreedy(a.w, DecoderFrames(enc_out, DecoderLayout(a)), a.blank)

\* A search that takes token 0 for the blank, whatever the model's blank.
beam_search_blank0(a, x, lm, lm_weight, beam, nbest, normalized, max_len, vectorized, tb) ==
    LET enc_out == dec_prep(a, x)
    IN  DecoderBeam(a.w, DecoderFrames(enc_out, DecoderLayout(a)), beam,
                    0, nbest, lm, lm_weight, normalized, tb)

\* TransducerASR.beam_search and XfmrTransducerASR.beam_search: max_len and
\* vectorized are not handed to the decoder.
beam_search(a, x, lm, lm_weight, beam, nbest, normalized, max_len, vectorized, tb) ==
    LET enc_out == dec_prep(a, x)
    IN  DecoderBeam(a.w, DecoderFrames(enc_out, DecoderLayout(a)), beam,
                    a.blank, nbest, lm, lm_weight, normalized, tb)

\* A length bound that takes a positive max_len as it is.
AttASR_max_len_unclipped(inp_len, max_len) ==
    IF max_len <= 0 THEN inp_len ELSE max_len

\* AttASR.beam_search: the length bound, then the vectorized or the plain
\* search of the decoder; the plain search is not handed lm and lm_weight.
AttASR_max_len(inp_len, max_len) ==
    IF max_len <= 0 THEN inp_len ELSE Min(inp_len, max_len)

AttASR_beam_search(a, x, lm, lm_weight, beam, nbest, max_len, vectorized, normalized, tb) ==
    LET inp_len == Len(x)
        enc_out == Encoder(a, x)
        frames == DecoderFrames(enc_out, "NTD")
        bound == AttASR_max_len(inp_len, max_len)
    IN  IF vectorized
        THEN AttDecoderBeam(a.w, frames, beam, lm, lm_weight, nbest, bound,
                            a.sos, a.eos, normalized, tb)
        ELSE AttDecoderBeam(a.w, frames, beam, "none", 0, nbest, bound,
                            a.sos, a.eos, normalized, tb)

\* ------------------------------------------------- calls on a built model

NoArgs ==
    [ beam |-> 0, nbest |-> 0, max_len |-> 0, normalized |-> FALSE,
      lm |-> "none", lm_weight |-> 0, vectorized |-> FALSE, tb |-> "low" ]
NoCall == [fn |-> "none", x |-> <<>>, a |-> NoArgs, trans |-> <<>>]
NoOut ==
    [ fn |-> "none", rel |-> "first", trans |-> <<>>, lm_on |-> FALSE,
      tie |-> FALSE, layout |-> "NTD", gap |-> FALSE ]

\* The arguments of the calls of beam_search.
BeamArgs ==
    { g \in [ beam : 1..MaxBeam, nbest : {1}, max_len : {0 - 1},
              normalized : {TRUE}, lm : {"none", "lm"}, lm_weight : 0..1,
              vectorized : {TRUE}, tb : {"low", "high"} ] :
        g.lm = "none" => g.lm_weight = 0 }
AttBeamArgs ==
    { g \in [ beam : 1..MaxBeam, nbest : {1}, max_len : {0 - 1, 1},
              normalized : {TRUE}, lm : {"none", "lm"}, lm_weight : 0..1,
              vectorized : BOOLEAN, tb : {"low"} ] :
        g.lm = "none" => g.lm_weight = 0 }

\* The models the constructors build.
TransducerModels ==
    [ kind : {"transducer", "xfmr_transducer"}, sos : {0 - 1}, eos : {0 - 1},
      blank : 0..MaxId, is_xfmr_encoder : BOOLEAN, w : 0..MaxWeight,
      err : {NoErr} ]
AttModels ==
    [ kind : {"att"}, sos : 0..MaxId, eos : 0..MaxId, blank : {0 - 1},
      is_xfmr_encoder : {FALSE}, w : 0..MaxWeight, err : {NoErr} ]

\* The results of the searches on every model, input and arguments.
GreedyTable ==
    [ a \in TransducerModels, x \in Inputs |-> greedy_search(a, x) ] @@ <<>>
BeamTable ==
    [ a \in TransducerModels, x \in Inputs, g \in BeamArgs |->
        beam_search(a, x, g.lm, g.lm_weight, g.beam, g.nbest, g.normalized,
                    g.max_len, g.vectorized, g.tb) ] @@ <<>>
AttBeamTable ==
    [ a \in AttModels, x \in Inputs, g \in AttBeamArgs |->
        AttASR_beam_search(a, x, g.lm, g.lm_weight, g.beam, g.nbest,
                           g.max_len, g.vectorized, g.normalized, g.tb) ]
      @@ <<>>
Targets == { <<0>>, <<MaxId>> }

LmOn(a) == a.lm # "none" /\ a.lm_weight # 0

\* How a call stands to the first call made on the model.
Rel(fn, x, a) ==
    IF memo.fn = "none" THEN "first"
    ELSE IF memo.fn = fn /\ memo.x = x /\ memo.a = a THEN "same"
    ELSE IF /\ fn = "att_beam" /\ memo.fn = fn /\ memo.x = x
            /\ [memo.a EXCEPT !.vectorized = a.vectorized] = a
         THEN "vec"
    ELSE IF /\ memo.x = x
            /\ \/ fn = "greedy" /\ memo.fn = "beam" /\ memo.a.beam = 1
               \/ fn = "beam" /\ a.beam = 1 /\ memo.fn = "greedy"
         THEN "beam1"
    ELSE "other"

\* The record of a call: the first call is kept whole in memo, every call
\* leaves in out how it stands to the first and, when it stands in one of the
\* relations above, its result and, for a repeated greedy search, whether
\* other calls came in between.
Called(fn, x, a, trans, layout) ==
    /\ memo' = IF memo.fn = "none"
               THEN [fn |-> fn, x |-> x, a |-> a, trans |-> trans]
               ELSE memo
    /\ out' = IF Rel(fn, x, a) = "other"
              THEN [NoOut EXCEPT !.fn = fn, !.rel = "other",
                                 !.layout = layout]
              ELSE [ fn |-> fn, rel |-> Rel(fn, x, a), trans |-> trans,
                     lm_on |-> LmOn(a) \/ LmOn(memo.a),
                     tie |-> IF asr.kind = "att" THEN FALSE
                             ELSE GreedyTable[asr, x].tie,
                     layout |-> layout,
                     gap |-> /\ fn = "greedy"
                             /\ Rel(fn, x, a) = "same"
                             /\ out.rel # "first" ]
    /\ UNCHANGED <<dphase, asr, trainer_vars, lib_vars>>

\* The encoder output forward hands to the decoder: TransducerASR.forward
\* transposes the output of a transformer encoder, XfmrTransducerASR.forward
\* that of the other encoders.
forward_enc_out(a, x) ==
    IF a.kind = "transducer"
    THEN (IF a.is_xfmr_encoder THEN Transpose(Encoder(a, x))
          ELSE Encoder(a, x))
    ELSE IF a.kind = "xfmr_transducer"
    THEN (IF ~a.is_xfmr_encoder THEN Transpose(Encoder(a, x))
          ELSE Encoder(a, x))
    ELSE Encoder(a, x)

\* forward: the targets padded with blank (the attention decoder pads sos),
\* decoded against the encoder output.
Forward_call(x, y) ==
    /\ dphase = "built"
    /\ LET enc_out == forward_enc_out(asr, x)
           y_pad == IF asr.kind = "att" THEN <<asr.sos>> \o y
                    ELSE <<asr.blank>> \o y
       IN  Called("forward", x, NoArgs, y_pad, enc_out.layout)

\* A decoder that keeps the last token of the previous search as the start
\* of the next one.
GreedySearch_call_stale(x) ==
    /\ dphase = "built"
    /\ asr.kind \in {"transducer", "xfmr_transducer"}
    /\ Called("greedy", x, NoArgs,
              GreedyFrom(asr.w,
                         DecoderFrames(dec_prep(asr, x), DecoderLayout(asr)),
                         asr.blank, 1,
                         IF out.trans = <<>> THEN asr.blank
                         ELSE out.trans[Len(out.trans)],
                         [trans |-> <<>>, score |-> 0, tie |-> FALSE]).trans,
              dec_prep(asr, x).layout)

GreedySearch_call(x) ==
    /\ dphase = "built"
    /\ asr.kind \in {"transducer", "xfmr_transducer"}
    /\ Called("greedy", x, NoArgs, GreedyTable[asr, x].trans,
              dec_prep(asr, x).layout)

BeamSearch_call(x, a) ==
    /\ dphase = "built"
    /\ asr.kind \in {"transducer", "xfmr_transducer"}
    /\ Called("beam", x, a, BeamTable[asr, x, a], dec_prep(asr, x).layout)

AttBeamSearch_call(x, a) ==
    /\ dphase = "built"
    /\ asr.kind = "att"
    /\ Called("att_beam", x, a, AttBeamTable[asr, x, a], "NTD")

\* ------------------------------------------------- attention beam search, step by step

NoSearch ==
    [ fn |-> "none", inp_len |-> 0, max_len |-> 0, bound |-> 0, lm |-> "none",
      lm_weight |-> 0, beam |-> 0, xs |-> <<>>, hyps |-> <<>>, steps |-> 0 ]

\* The arguments of the searches followed step by step.
LenArgs ==
    [ beam : 1..MaxBeam, max_len : (0 - 1)..(MaxT + 1), vectorized : BOOLEAN,
      lm : {"lm"}, lm_weight : {1} ]

\* A batch N x Ti x F: one or two utterances, padded to the longest.
BatchSet == { <<x>> : x \in Inputs } \cup (Inputs \X Inputs)
Max(a, b) == IF a >= b THEN a ELSE b
PaddedLen(xs) == IF Len(xs) = 1 THEN Len(xs[1]) ELSE Max(Len(xs[1]), Len(xs[2]))

StartHyps(sos) ==
    <<[trans |-> <<sos>>, t |-> 1, done |-> FALSE, score |-> 0, ord |-> 1]>>

\* AttASR.beam_search up to the call of the decoder: the input length, the
\* length bound, and the arguments the chosen search is handed.
AttBeamSearch_begin(x, g) ==
    /\ dphase = "built"
    /\ asr.kind = "att"
    /\ bs.fn = "none"
    /\ bs' = [ fn |-> "beam_search", inp_len |-> Len(x),
               max_len |-> g.max_len,
               bound |-> AttASR_max_len(Len(x), g.max_len),
               lm |-> IF g.vectorized THEN g.lm ELSE "none",
               lm_weight |-> IF g.vectorized THEN g.lm_weight ELSE 0,
               beam |-> g.beam, xs |-> <<x>>,
               hyps |-> <<StartHyps(asr.sos)>>, steps |-> 0 ]
    /\ UNCHANGED search_frame

\* AttASR.beam_search_batch up to the call of the decoder: inp_len is the
\* padded length x.shape[1]; no language model is handed over.
AttBeamSearchBatch_begin(xs, g) ==
    /\ dphase = "built"
    /\ asr.kind = "att"
    /\ bs.fn = "none"
    /\ bs' = [ fn |-> "beam_search_batch", inp_len |-> PaddedLen(xs),
               max_len |-> g.max_len,
               bound |-> AttASR_max_len(PaddedLen(xs), g.max_len),
               lm |-> "none", lm_weight |-> 0, beam |-> g.beam, xs |-> xs,
               hyps |-> [n \in 1..Len(xs) |-> StartHyps(asr.sos)],
               steps |-> 0 ]
    /\ UNCHANGED search_frame

AllFinished ==
    \A n \in 1..Len(bs.hyps) : \A i \in 1..Len(bs.hyps[n]) :
        AFinished(bs.hyps[n][i], bs.bound)

\* One step of the decoder: every live hypothesis of every utterance is
\* extended by the vocabulary and the best beam of them are kept.
DecodeStep ==
    /\ bs.fn # "none"
    /\ ~AllFinished
    /\ bs' = [bs EXCEPT
               !.hyps = [n \in 1..Len(bs.hyps) |->
                           TopK(AExpand(asr.w,
                                        DecoderFrames(Encoder(asr, bs.xs[n]),
                                                      "NTD"),
                                        asr.eos, bs.lm, bs.lm_weight,
                                        bs.bound, bs.hyps[n]),
                                bs.beam, "low", 1)],
               !.steps = @ + 1]
    /\ UNCHANGED search_frame

\* The search returns when every hypothesis is terminal.
SearchReturn ==
    /\ bs.fn # "none"
    /\ AllFinished
    /\ bs' = NoSearch
    /\ UNCHANGED search_frame

SearchInit == bs = NoSearch

SearchNext ==
    \/ \E sos \in Ids, eos \in Ids, w \in 0..MaxWeight : AttASR_init(sos, eos, w)
    \/ \E x \in Inputs, g \in LenArgs : AttBeamSearch_begin(x, g)
    \/ \E xs \in BatchSet, g \in LenArgs : AttBeamSearchBatch_begin(xs, g)
    \/ DecodeStep
    \/ SearchReturn

DecInit ==
    /\ dphase = "none"
    /\ asr = NoAsr
    /\ memo = NoCall
    /\ out = NoOut

DecNext ==
    \/ \E sos \in Ids, eos \in Ids, w \in 0..MaxWeight : AttASR_init(sos, eos, w)
    \/ \E blank \in Ids, enc_type \in {"xfmr", "common"},
          dec_type \in {"rnn", "xfmr"}, w \in 0..MaxWeight :
           TransducerASR_init(blank, enc_type, dec_type, w)
    \/ \E blank \in Ids, enc_type \in {"xfmr", "common"},
          dec_type \in {"rnn", "xfmr"}, w \in 0..MaxWeight :
           XfmrTransducerASR_init(blank, enc_type, dec_type, w)
    \/ \E x \in Inputs, y \in Targets : Forward_call(x, y)
    \/ \E x \in Inputs : GreedySearch_call(x)
    \/ \E x \in Inputs, a \in BeamArgs : BeamSearch_call(x, a)
    \/ \E x \in Inputs, a \in AttBeamArgs : AttBeamSearch_call(x, a)

\* ------------------------------------------------- multi-head attention

\* A function on 1..n as the tuple of its values.
Tuple(f) == f \o <<>>

\* The outcome of a call: the error raised, or the two tensors returned.
Raised(e) == [err |-> e, context |-> <<>>, weight |-> <<>>]
Returned(context, weight) ==
    [err |-> "none", context |-> context, weight |-> weight]

\* Sums of the first n entries of a function to the integers.
RECURSIVE SumTo(_, _)
SumTo(f, n) == IF n = 0 THEN 0 ELSE f[n] + SumTo(f, n - 1)

\* Float addition with infinities and NaN.
ExtAdd(a, b) ==
    IF a.k = "nan" \/ b.k = "nan" THEN NaN
    ELSE IF a.k = "fin" /\ b.k = "fin" THEN Fin(a.v + b.v)
    ELSE IF a.k = "fin" THEN b
    ELSE IF b.k = "fin" THEN a
    ELSE IF a.k = b.k THEN a
    ELSE NaN

\* Exact fractions stand for the floats of the softmax and of what follows.
RECURSIVE Gcd(_, _)
Gcd(a, b) == IF b = 0 THEN a ELSE Gcd(b, a % b)
\* The fraction n / d (d > 0, n >= 0) in lowest terms.
Frac(n, d) ==
    [nan |-> FALSE, num |-> n \div Gcd(d, n), den |-> d \div Gcd(d, n)]
FracNaN == [nan |-> TRUE, num |-> 0, den |-> 1]
FracAdd(a, b) ==
    IF a.nan \/ b.nan THEN FracNaN
    ELSE Frac(a.num * b.den + b.num * a.den, a.den * b.den)
FracMul(a, n) == IF a.nan THEN FracNaN ELSE Frac(a.num * n, a.den)
FracDiv(a, n) == IF a.nan THEN FracNaN ELSE Frac(a.num, a.den * n)
RECURSIVE FracSumTo(_, _)
FracSumTo(f, n) ==
    IF n = 0 THEN Frac(0, 1) ELSE FracAdd(f[n], FracSumTo(f, n - 1))

\* The head sizes of the model, their square roots whole.
HeadDims == {1, 4}
EmbedDims == {1, 2, 4, 8}
HeadCounts == {1, 2}
Sqrt(d) == IF d = 4 THEN 2 ELSE 1

Pos == 1..AttnLen

NoMha == [embed_dim |-> 0, num_heads |-> 0, head_dim |-> 0, bias |-> "none"]

\* in_proj_weight, rows base * E + 1 .. (base + 1) * E: the identity for the
\* query and the key, the identity plus the next column for the value.
InProjWeight(base, E) ==
    Tuple([i \in 1..E |-> Tuple([j \in 1..E |->
        IF i = j THEN 1
        ELSE IF base = 2 /\ j = (i % E) + 1 THEN 1 ELSE 0])])
\* out_proj.weight: the identity plus the next column.
OutProjWeight(E) == InProjWeight(2, E)

\* tf.linear(x, weight, bias) on one vector; bias "none" adds nothing.
Linear(x, W, bias, E) ==
    Tuple([i \in 1..E |-> SumTo([j \in 1..E |-> W[i][j] * x[j]], E)])

\* Index of component d of head h.
At(m, h, d) == (h - 1) * m.head_dim + d

\* ApsMultiheadAttention.inp_proj, one tensor: in_proj_bias[idx] fails when
\* the module was built without bias.
inp_proj(m, base, mat) ==
    IF m.bias = "none" THEN Raised("TypeError")
    ELSE LET W == InProjWeight(base, m.embed_dim)
         IN  Returned(Tuple([t \in Pos |->
                                Linear(mat[t], W, m.bias, m.embed_dim)]),
                      <<>>)

\* th.softmax over the keys of one row, then dropout with p = 0.
Exp2(x) == IF x.k = "ninf" THEN 0 ELSE 2 ^ x.v
SoftmaxRow(row) ==
    IF \/ \E s \in Pos : row[s].k \in {"nan", "inf"}
       \/ \A s \in Pos : row[s].k = "ninf"
    THEN Tuple([s \in Pos |-> FracNaN])
    ELSE LET den == SumTo([s \in Pos |-> Exp2(row[s])], AttnLen)
         IN  Tuple([s \in Pos |-> Frac(Exp2(row[s]), den)])

\* A context_weight that adds the additive mask before filling the padded
\* keys, as the reference does.
context_weight_mask_first(m, logit, value, key_padding_mask, attn_mask) ==
    LET masked ==
            [l \in Pos |-> [h \in 1..m.num_heads |-> Tuple([s \in Pos |->
                LET scaled == Fin(logit[l][h][s] \div Sqrt(m.head_dim))
                    added == IF attn_mask.given
                             THEN ExtAdd(scaled, attn_mask.m[l][s])
                             ELSE scaled
                IN  IF key_padding_mask.given /\ s \in key_padding_mask.pad
                    THEN NegInf ELSE added])]]
        weight == Tuple([l \in Pos |-> Tuple([h \in 1..m.num_heads |->
                      SoftmaxRow(masked[l][h])])])
    IN  [ weight |-> weight,
          context |-> Tuple([l \in Pos |-> Tuple([e \in 1..m.embed_dim |->
              LET h == ((e - 1) \div m.head_dim) + 1
              IN  FracSumTo([s \in Pos |->
                                FracMul(weight[l][h][s], value[s][e])],
                            AttnLen)])]) ]

\* ApsMultiheadAttention.context_weight: the logits scaled by the root of the
\* head size, the padded keys filled with -inf, the additive mask added, the
\* softmax, and the weighted sum of the values.
context_weight(m, logit, value, key_padding_mask, attn_mask) ==
    LET masked ==
            [l \in Pos |-> [h \in 1..m.num_heads |-> Tuple([s \in Pos |->
                LET scaled == Fin(logit[l][h][s] \div Sqrt(m.head_dim))
                    filled == IF key_padding_mask.given
                                 /\ s \in key_padding_mask.pad
                              THEN NegInf ELSE scaled
                IN  IF attn_mask.given
                    THEN ExtAdd(filled, attn_mask.m[l][s]) ELSE filled])]]
        weight == Tuple([l \in Pos |-> Tuple([h \in 1..m.num_heads |->
                      SoftmaxRow(masked[l][h])])])
    IN  [ weight |-> weight,
          context |-> Tuple([l \in Pos |-> Tuple([e \in 1..m.embed_dim |->
              LET h == ((e - 1) \div m.head_dim) + 1
              IN  FracSumTo([s \in Pos |->
                                FracMul(weight[l][h][s], value[s][e])],
                            AttnLen)])]) ]

\* ApsMultiheadAttention.wrap_out: out_proj on the heads laid side by side,
\* and the mean of the weights over the heads.
wrap_out(m, context, weight) ==
    LET W == OutProjWeight(m.embed_dim)
    IN  Returned(
          Tuple([l \in Pos |-> Tuple([i \in 1..m.embed_dim |->
              FracSumTo([j \in 1..m.embed_dim |->
                            FracMul(context[l][j], W[i][j])],
                        m.embed_dim)])]),
          Tuple([l \in Pos |-> Tuple([s \in Pos |->
              FracDiv(FracSumTo([h \in 1..m.num_heads |-> weight[l][h][s]],
                                m.num_heads),
                      m.num_heads)])]))

\* The logits of the heads: einsum("lnhd,snhd->lnhs", query, key).
Logit(m, query, key) ==
    Tuple([l \in Pos |-> Tuple([h \in 1..m.num_heads |-> Tuple([s \in Pos |->
        SumTo([d \in 1..m.head_dim |->
                  query[l][At(m, h, d)] * key[s][At(m, h, d)]],
              m.head_dim)])])])

\* ApsMultiheadAttention.forward
forward(m, query, key, value, key_padding_mask, attn_mask) ==
    LET q == inp_proj(m, 0, query)
        k == inp_proj(m, 1, key)
        v == inp_proj(m, 2, value)
    IN  IF q.err # "none" THEN q
        ELSE LET cw == context_weight(m, Logit(m, q.context, k.context),
                                      v.context, key_padding_mask, attn_mask)
             IN  wrap_out(m, cw.context, cw.weight)

\* ApsMultiheadAttention.torch_forward: tf.multi_head_attention_forward with
\* the parameters of the module. It projects with or without bias, scales
\* the query, adds the additive mask, fills the padded keys with -inf, and
\* returns the projected context and the weights averaged over the heads.
torch_forward(m, query, key, value, key_padding_mask, attn_mask) ==
    LET E == m.embed_dim
        q == Tuple([t \in Pos |->
                 LET p == Linear(query[t], InProjWeight(0, E), m.bias, E)
                 IN  Tuple([e \in 1..E |-> p[e] \div Sqrt(m.head_dim)])])
        k == Tuple([t \in Pos |->
                      Linear(key[t], InProjWeight(1, E), m.bias, E)])
        v == Tuple([t \in Pos |->
                      Linear(value[t], InProjWeight(2, E), m.bias, E)])
        dots == Logit(m, q, k)
        attn_w ==
            Tuple([l \in Pos |-> Tuple([h \in 1..m.num_heads |->
                SoftmaxRow(Tuple([s \in Pos |->
                    LET dot == Fin(dots[l][h][s])
                        added == IF attn_mask.given
                                 THEN ExtAdd(dot, attn_mask.m[l][s]) ELSE dot
                    IN  IF key_padding_mask.given
                           /\ s \in key_padding_mask.pad
                        THEN NegInf ELSE added]))])])
        attn_out ==
            Tuple([l \in Pos |-> Tuple([e \in 1..E |->
                LET h == ((e - 1) \div m.head_dim) + 1
                IN  FracSumTo([s \in Pos |->
                                  FracMul(attn_w[l][h][s], v[s][e])],
                              AttnLen)])])
        W == OutProjWeight(E)
    IN  Returned(
          Tuple([l \in Pos |-> Tuple([i \in 1..E |->
              FracSumTo([j \in 1..E |-> FracMul(attn_out[l][j], W[i][j])],
                        E)])]),
          Tuple([l \in Pos |-> Tuple([s \in Pos |->
              FracDiv(FracSumTo([h \in 1..m.num_heads |-> attn_w[l][h][s]],
                                m.num_heads),
                      m.num_heads)])]))

\* The inputs of a call: the seeds of query, key and value, the padded keys
\* (never all of them) and the additive mask.
MaskVals == {Fin(0), Fin(1), NegInf, PosInf}
NoMask == [given |-> FALSE, m |-> [l \in Pos |-> [s \in Pos |-> Fin(0)]]]
\* th.triu(th.ones(T, T), diagonal): ones kept where column - row >= diagonal.
triu(T, diagonal) ==
    [i \in 1..T |-> [j \in 1..T |-> IF j - i >= diagonal THEN 1 ELSE 0]]
\* A prep_sub_mask that masks the diagonal as well.
prep_sub_mask_diagonal(T) ==
    [given |-> TRUE,
     m |-> [i \in 1..T |-> [j \in 1..T |->
              IF triu(T, 0)[i][j] = 1 THEN NegInf ELSE Fin(0)]]]
\* prep_sub_mask: the strict upper triangle as floats, its ones filled with
\* -inf.
prep_sub_mask(T) ==
    [given |-> TRUE,
     m |-> [i \in 1..T |-> [j \in 1..T |->
              IF triu(T, 1)[i][j] = 1 THEN NegInf ELSE Fin(triu(T, 1)[i][j])]]]
AttnMasks ==
    {NoMask, prep_sub_mask(AttnLen)} \cup
    { [given |-> TRUE,
       m |-> [l \in Pos |-> [s \in Pos |->
                 IF l = p[1] /\ s = p[2] THEN c ELSE Fin(0)]]]
      : p \in Pos \X Pos, c \in MaskVals }
PaddingMasks ==
    { [given |-> FALSE, pad |-> {}] } \cup
    { [given |-> TRUE, pad |-> P] : P \in (SUBSET Pos) \ {Pos} }
AttnInputs ==
    [ q : 0..1, k : 0..1, v : 0..1, key_padding_mask : PaddingMasks,
      attn_mask : AttnMasks ]
NoAttnInput ==
    [ q |-> 0, k |-> 0, v |-> 0,
      key_padding_mask |-> [given |-> FALSE, pad |-> {}],
      attn_mask |-> NoMask ]
QueryOf(inp, E) ==
    Tuple([l \in Pos |-> Tuple([e \in 1..E |-> 2 * ((inp.q + l + e) % 2)])])
KeyOf(inp, E) ==
    Tuple([s \in Pos |-> Tuple([e \in 1..E |-> (inp.k + s + e) % 2])])
ValueOf(inp, E) ==
    Tuple([s \in Pos |-> Tuple([e \in 1..E |-> (inp.v + s * e) % 2])])

NoAttn ==
    [ phase |-> "none", m |-> NoMha, inp |-> NoAttnInput, cw |-> <<>>,
      my |-> Raised("not called"), th |-> Raised("not called") ]

\* ApsMultiheadAttention.__init__
ApsMultiheadAttention_init(embed_dim, num_heads, bias) ==
    /\ attn.phase = "none"
    /\ IF (embed_dim \div num_heads) * num_heads # embed_dim
       THEN attn' = [attn EXCEPT !.phase = "failed"]
       ELSE attn' = [attn EXCEPT
                       !.phase = "built",
                       !.m = [ embed_dim |-> embed_dim,
                               num_heads |-> num_heads,
                               head_dim |-> embed_dim \div num_heads,
                               bias |-> IF bias THEN "zeros" ELSE "none" ]]
    /\ UNCHANGED attn_frame

\* check_self_attn without its assertions: forward and torch_forward on the
\* same inputs, with the weights context_weight returned.  Neither call
\* writes to the module (dropout is 0), so one call per module stands for
\* every call.
SelfAttn_call(inp) ==
    /\ attn.phase = "built"
    /\ LET E == attn.m.embed_dim
           query == QueryOf(inp, E)
           key == KeyOf(inp, E)
           value == ValueOf(inp, E)
       IN  attn' = [attn EXCEPT
               !.phase = "called",
               !.inp = inp,
               !.cw = IF attn.m.bias = "none" THEN <<>>
                      ELSE context_weight(
                               attn.m,
                               Logit(attn.m,
                                     inp_proj(attn.m, 0, query).context,
                                     inp_proj(attn.m, 1, key).context),
                               inp_proj(attn.m, 2, value).context,
                               inp.key_padding_mask, inp.attn_mask).weight,
               !.my = forward(attn.m, query, key, value,
                              inp.key_padding_mask, inp.attn_mask),
               !.th = torch_forward(attn.m, query, key, value,
                                    inp.key_padding_mask, inp.attn_mask)]
    /\ UNCHANGED attn_frame

AttnInit == attn = NoAttn

AttnNext ==
    \/ \E embed_dim \in EmbedDims, num_heads \in HeadCounts, bias \in BOOLEAN :
          /\ \/ embed_dim % num_heads # 0
             \/ embed_dim \div num_heads \in HeadDims
          /\ ApsMultiheadAttention_init(embed_dim, num_heads, bias)
    \/ \E inp \in AttnInputs : SelfAttn_call(inp)

\* ------------------------------------------------- relative position shift

\* A tensor of four dimensions: its shape and its entries, indexed from 1.
Idx(shape) ==
    (1..shape[1]) \X (1..shape[2]) \X (1..shape[3]) \X (1..shape[4])
\* The place of entry i in the contiguous storage of a tensor, from 0.
Offset(shape, i) ==
    (((i[1] - 1) * shape[2] + (i[2] - 1)) * shape[3] + (i[3] - 1)) * shape[4]
        + (i[4] - 1)
\* The entry stored at place o.
Unravel(shape, o) ==
    << (o \div (shape[2] * shape[3] * shape[4])) + 1,
       ((o \div (shape[3] * shape[4])) % shape[2]) + 1,
       ((o \div shape[4]) % shape[3]) + 1,
       (o % shape[4]) + 1 >>
NoTensor == [shape |-> <<0, 0, 0, 0>>, at |-> <<>>]

\* th.cat([t, zero_pad], dim=-1) with zero_pad of shape L x N x H x 1
cat_zero_pad(t) ==
    LET shape == [t.shape EXCEPT ![4] = @ + 1]
    IN  [ shape |-> shape,
          at |-> [i \in Idx(shape) |->
                    IF i[4] <= t.shape[4] THEN t.at[i] ELSE 0] ]
\* th.einsum("lnhs->lsnh", t).contiguous()
einsum_lnhs_lsnh(t) ==
    LET shape == <<t.shape[1], t.shape[4], t.shape[2], t.shape[3]>>
    IN  [ shape |-> shape,
          at |-> [i \in Idx(shape) |-> t.at[<<i[1], i[3], i[4], i[2]>>]] ]
\* t.view(shape): the same storage read with another shape
view(t, shape) ==
    [ shape |-> shape,
      at |-> [i \in Idx(shape) |-> t.at[Unravel(t.shape, Offset(shape, i))]] ]
\* t[:1]
first_slice(t) ==
    LET shape == [t.shape EXCEPT ![1] = IF @ >= 1 THEN 1 ELSE 0]
    IN  [shape |-> shape, at |-> [i \in Idx(shape) |-> t.at[i]]]
\* th.einsum("slnh->lnhs", t).contiguous()
einsum_slnh_lnhs(t) ==
    LET shape == <<t.shape[2], t.shape[3], t.shape[4], t.shape[1]>>
    IN  [ shape |-> shape,
          at |-> [i \in Idx(shape) |-> t.at[<<i[4], i[1], i[2], i[3]>>]] ]

\* XlMultiheadAttention._rel_shift
XlMultiheadAttention_rel_shift(rel_pos) ==
    LET L == rel_pos.shape[1]
        N == rel_pos.shape[2]
        H == rel_pos.shape[3]
        S == rel_pos.shape[4]
    IN  einsum_slnh_lnhs(
            first_slice(view(einsum_lnhs_lsnh(cat_zero_pad(rel_pos)),
                             <<S + 1, L, N, H>>)))

\* a + b on tensors equal in their first three dimensions: a last dimension
\* of size 1 is broadcast, any other mismatch is an error.
BroadcastAdd(a, b) ==
    IF a.shape[4] = b.shape[4]
    THEN [ err |-> "none", broadcast |-> FALSE,
           t |-> [shape |-> a.shape,
                  at |-> [i \in Idx(a.shape) |-> a.at[i] + b.at[i]]] ]
    ELSE IF b.shape[4] = 1
    THEN [ err |-> "none", broadcast |-> TRUE,
           t |-> [shape |-> a.shape,
                  at |-> [i \in Idx(a.shape) |->
                            a.at[i] + b.at[[i EXCEPT ![4] = 1]]]] ]
    ELSE [err |-> "RuntimeError", broadcast |-> FALSE, t |-> NoTensor]

\* The terms of the logit in XlMultiheadAttention.forward: term_ac is the
\* same at every entry, and every entry of term_bd differs from the others
\* and from the padding.
TermAc(shape, fill) == [shape |-> shape, at |-> [i \in Idx(shape) |-> fill]]
TermBd(shape, base) ==
    [shape |-> shape, at |-> [i \in Idx(shape) |-> base + Offset(shape, i)]]

NoXl ==
    [ phase |-> "none", term_bd |-> NoTensor, shifted |-> NoTensor,
      logit |-> [err |-> "none", broadcast |-> FALSE, t |-> NoTensor] ]

\* XlMultiheadAttention.forward up to the logit
XlForward_logit(L, N, H, S, fill, base) ==
    /\ xl.phase = "none"
    /\ LET term_ac == TermAc(<<L, N, H, S>>, fill)
           term_bd == TermBd(<<L, N, H, S>>, base)
           shifted == XlMultiheadAttention_rel_shift(term_bd)
       IN  xl' = [ phase |-> "called", term_bd |-> term_bd,
                   shifted |-> shifted,
                   logit |-> BroadcastAdd(term_ac, shifted) ]
    /\ UNCHANGED xl_frame

XlInit == xl = NoXl

XlNext ==
    \E L \in 1..ShiftLen, N \in 1..2, H \in 1..2, S \in 1..ShiftLen,
       fill \in 0..2, base \in 1..2 : XlForward_logit(L, N, H, S, fill, base)

\* ------------------------------------------------- complex convolution

Channels == 1..MaxChan
\* Real and imaginary parts of the entries, and the weights of a kernel.
Reals == (0 - 1)..1
Complexes == [re : Reals, im : Reals]
\* A kernel over C channels, as nn.Conv1d draws it at construction.
Kernels(C) == [1..C -> {1, 2}]
\* A tensor handed to the layer: a ComplexTensor over C channels, or a real
\* tensor.
ConvInputs(C) ==
    { [complex |-> TRUE, v |-> v] : v \in [1..C -> Complexes] } \cup
    { [complex |-> FALSE, v |-> [c \in 1..C |-> [re |-> 1, im |-> 0]]] }

\* A real convolution whose kernel spans the C channels (bias=False).
Conv(w, x, C) == SumTo([c \in 1..C |-> w[c] * x[c]], C)

\* ComplexConvXd.forward with the real and imaginary parts added.
ComplexConvXd_forward_plus(m, x, add_abs) ==
    IF ~x.complex THEN [err |-> "RuntimeError", kind |-> "none", re |-> 0, im |-> 0]
    ELSE LET xr == [c \in 1..m.C |-> x.v[c].re]
             xi == [c \in 1..m.C |-> x.v[c].im]
             br == Conv(m.real, xr, m.C) + Conv(m.imag, xi, m.C)
             bi == Conv(m.real, xi, m.C) + Conv(m.imag, xr, m.C)
         IN  IF ~add_abs
             THEN [err |-> "none", kind |-> "complex", re |-> br, im |-> bi]
             ELSE [err |-> "none", kind |-> "abs",
                   re |-> br * br + bi * bi, im |-> 0]

\* ComplexConvXd.forward.  With add_abs the result is (re + eps) ** 0.5 for
\* the re of the record returned here.
ComplexConvXd_forward(m, x, add_abs) ==
    IF ~x.complex THEN [err |-> "RuntimeError", kind |-> "none", re |-> 0, im |-> 0]
    ELSE LET xr == [c \in 1..m.C |-> x.v[c].re]
             xi == [c \in 1..m.C |-> x.v[c].im]
             br == Conv(m.real, xr, m.C) - Conv(m.imag, xi, m.C)
             bi == Conv(m.real, xi, m.C) + Conv(m.imag, xr, m.C)
         IN  IF ~add_abs
             THEN [err |-> "none", kind |-> "complex", re |-> br, im |-> bi]
             ELSE [err |-> "none", kind |-> "abs",
                   re |-> br * br + bi * bi, im |-> 0]

NoConv ==
    [ phase |-> "none", m |-> [C |-> 0, real |-> <<>>, imag |-> <<>>],
      x |-> [complex |-> FALSE, v |-> <<>>], add_abs |-> FALSE,
      y |-> [err |-> "none", kind |-> "none", re |-> 0, im |-> 0] ]

\* ComplexConvXd.__init__: two convolutions of the same layout, each with
\* its own kernel.
ComplexConvXd_init(C, real, imag) ==
    /\ conv.phase = "none"
    /\ conv' = [conv EXCEPT !.phase = "built",
                            !.m = [C |-> C, real |-> real, imag |-> imag]]
    /\ UNCHANGED conv_frame

ComplexConvXd_call(x, add_abs) ==
    /\ conv.phase = "built"
    /\ conv' = [conv EXCEPT !.phase = "called", !.x = x, !.add_abs = add_abs,
                            !.y = ComplexConvXd_forward(conv.m, x, add_abs)]
    /\ UNCHANGED conv_frame

ConvInit == conv = NoConv

ConvNext ==
    \/ \E C \in Channels : \E real \in Kernels(C), imag \in Kernels(C) :
          ComplexConvXd_init(C, real, imag)
    \/ \E x \in ConvInputs(conv.m.C), add_abs \in BOOLEAN :
          ComplexConvXd_call(x, add_abs)

\* ------------------------------------------------- constructors

\* A _get_activation_fn that falls back on relu.
get_activation_fn_default_relu(activation) ==
    IF activation = "gelu" THEN [err |-> NoErr, fn |-> "GELU"]
    ELSE [err |-> NoErr, fn |-> "ReLU"]

\* _get_activation_fn
get_activation_fn(activation) ==
    IF activation = "relu" THEN [err |-> NoErr, fn |-> "ReLU"]
    ELSE IF activation = "gelu" THEN [err |-> NoErr, fn |-> "GELU"]
    ELSE [ err |-> Err("RuntimeError", "activation should be relu/gelu",
                       <<activation>>),
           fn |-> "none" ]

Activations == {"relu", "gelu", "tanh"}
LayerClasses == {"ApsTransformerEncoderLayer", "TransformerTorchEncoderLayer"}
ForwardClasses ==
    { "TransformerTorchEncoderLayer", "TransformerRelEncoderLayer",
      "TransformerXLEncoderLayer" }
NoLayerArgs == [src |-> "none", src_mask |-> FALSE, src_key_padding_mask |-> FALSE]
NoLayer ==
    [ phase |-> "none", cls |-> "none", activation |-> "none", fn |-> "none",
      err |-> NoErr, pre_norm |-> FALSE, args |-> NoLayerArgs, out |-> <<>> ]

\* ApsTransformerEncoderLayer.__init__ and TransformerTorchEncoderLayer
\* .__init__: each resolves the activation by name while the layer is built.
EncoderLayer_init(cls, activation, pre_norm) ==
    /\ layer.phase = "none"
    /\ LET got == get_activation_fn(activation)
       IN  layer' = [ phase |-> IF got.err = NoErr THEN "built" ELSE "failed",
                      cls |-> cls, activation |-> activation, fn |-> got.fn,
                      err |-> got.err,
                      pre_norm |-> IF got.err = NoErr THEN pre_norm ELSE FALSE,
                      args |-> NoLayerArgs, out |-> <<>> ]
    /\ UNCHANGED layer_frame

\* The value a layer computes, written as the operations that build it, each
\* after its operands: the tensor x, then norm1, is norm1(x).
Named(x) == <<x>>
Apply(op, e) == e \o <<op>>
Plus(a, b) == a \o b \o <<"+">>

\* TransformerTorchEncoderLayer.ffn
\*   dropout2(linear2(dropout(activation(linear1(src)))))
ffn(m, src) ==
    Apply("dropout",
          Apply("linear2",
                Apply("dropout", Apply(m.fn, Apply("linear1", src)))))
\* ApsTransformerEncoderLayer.feedforward: Linear, activation, Dropout,
\* Linear, Dropout in sequence.
feedforward(m, src) ==
    Apply("dropout",
          Apply("linear2",
                Apply("dropout", Apply(m.fn, Apply("linear1", src)))))

\* TransformerTorchEncoderLayer.forward
TransformerTorchEncoderLayer_forward(m, x) ==
    LET inp == x
        src1 == IF m.pre_norm THEN Apply("norm1", x) ELSE x
        att == Apply("self_attn", src1)
        src2 == Plus(inp, Apply("dropout", att))
    IN  IF m.pre_norm
        THEN Plus(src2, Apply("dropout", ffn(m, Apply("norm2", src2))))
        ELSE LET src3 == Apply("norm1", src2)
             IN  Apply("norm2", Plus(src3, ffn(m, src3)))

\* TransformerRelEncoderLayer.forward and TransformerXLEncoderLayer.forward,
\* which differ in the position arguments of self_attn only.
ApsEncoderLayer_forward(m, x) ==
    LET inp == x
        src1 == IF m.pre_norm THEN Apply("norm1", x) ELSE x
        att == Apply("self_attn", src1)
        src2 == Plus(inp, Apply("dropout", att))
    IN  IF m.pre_norm
        THEN Plus(src2, feedforward(m, Apply("norm2", src2)))
        ELSE LET src3 == Apply("norm1", src2)
             IN  Apply("norm2", Plus(src3, feedforward(m, src3)))

LayerArgs ==
    [ src : {"x", "y"}, src_mask : BOOLEAN, src_key_padding_mask : BOOLEAN ]

\* forward of the layer that was built
EncoderLayer_forward(a) ==
    /\ layer.phase = "built"
    /\ layer.cls \in ForwardClasses
    /\ layer' = [layer EXCEPT
          !.phase = "called", !.args = a,
          !.out = IF layer.cls = "TransformerTorchEncoderLayer"
                  THEN TransformerTorchEncoderLayer_forward(layer, Named(a.src))
                  ELSE ApsEncoderLayer_forward(layer, Named(a.src))]
    /\ UNCHANGED layer_frame

LayerNext ==
    \/ \E cls \in ForwardClasses, activation \in Activations,
          pre_norm \in BOOLEAN : EncoderLayer_init(cls, activation, pre_norm)
    \/ \E a \in LayerArgs : EncoderLayer_forward(a)

LayerInit == layer = NoLayer

NoSep ==
    [ phase |-> "none", enh_transform |-> "none", forward_stft |-> "none",
      inverse_stft |-> "none", err |-> NoErr ]

\* A Phasen.__init__ that leaves the transforms unset when none is given.
Phasen_init_unchecked(enh_transform) ==
    /\ sep.phase = "none"
    /\ sep' = [ phase |-> "built", enh_transform |-> enh_transform,
                forward_stft |-> IF enh_transform = "none" THEN "none"
                                 ELSE "forward_stft",
                inverse_stft |-> IF enh_transform = "none" THEN "none"
                                 ELSE "inverse_stft",
                err |-> NoErr ]
    /\ UNCHANGED sep_frame

\* Phasen.__init__
Phasen_init(enh_transform) ==
    /\ sep.phase = "none"
    /\ IF enh_transform = "none"
       THEN sep' = [sep EXCEPT
                      !.phase = "failed",
                      !.err = Err("RuntimeError",
                                  "Missing configuration for enh_transform",
                                  <<>>)]
       ELSE sep' = [ phase |-> "built", enh_transform |-> enh_transform,
                     forward_stft |-> "forward_stft",
                     inverse_stft |-> "inverse_stft", err |-> NoErr ]
    /\ UNCHANGED sep_frame

SepInit == sep = NoSep

\* The arguments of the front-ends' constructors.  weight is the tensor
\* th.load gives for the file named, with its beams (dimension 1) and its
\* channels (dimension 2).
Filters == 1..2
NoWeight == [given |-> FALSE, beams |-> 0, channels |-> 0]
Weights ==
    {NoWeight} \cup
    { [given |-> TRUE, beams |-> b, channels |-> c] :
        b \in Filters, c \in Channels }
SpectraInits == {"mel", "random", "zeros"}
QueryTypes == {"rnn", "conv", "lstm"}
EnhCfgs ==
    [ weight : Weights, num_channels : Channels, spatial_filters : Filters,
      spectra_init : SpectraInits, query_type : QueryTypes,
      batchnorm : BOOLEAN, apply_log : BOOLEAN ]
NoEnhCfg ==
    [ weight |-> NoWeight, num_channels |-> 0, spatial_filters |-> 0,
      spectra_init |-> "none", query_type |-> "none", batchnorm |-> FALSE,
      apply_log |-> FALSE ]

\* A check of the loaded weight that looks at the beams only.
weight_check_beams_only(c) ==
    IF ~c.weight.given THEN NoErr
    ELSE IF c.weight.beams # c.spatial_filters
    THEN Err("RuntimeError", "Number of beam don't match",
             <<c.weight.beams, c.spatial_filters>>)
    ELSE IF c.num_channels > 1 /\ c.spatial_filters > 1
    THEN Err("RuntimeError", "view size is not compatible", <<>>)
    ELSE NoErr

\* The loaded weight against the configuration, then its transposition and
\* view: the view of the transposed tensor joins the beams with the bins,
\* which their strides allow only with one channel or one beam.
weight_check(c) ==
    IF ~c.weight.given THEN NoErr
    ELSE IF c.weight.beams # c.spatial_filters
    THEN Err("RuntimeError", "Number of beam don't match",
             <<c.weight.beams, c.spatial_filters>>)
    ELSE IF c.weight.channels # c.num_channels
    THEN Err("RuntimeError", "Number of channels don't match",
             <<c.weight.channels, c.num_channels>>)
    ELSE IF c.num_channels > 1 /\ c.spatial_filters > 1
    THEN Err("RuntimeError", "view size is not compatible", <<>>)
    ELSE NoErr

\* The BatchNorm layer of a front-end: its running statistics.
NoNorm ==
    [ on |-> FALSE, running_mean |-> Frac(0, 1), running_var |-> Frac(1, 1),
      num_batches_tracked |-> 0 ]
FreshNorm == [NoNorm EXCEPT !.on = TRUE]

\* The spatial convolution of a front-end (self.conv, self.conv_v): for its
\* real and its imaginary layer, the tensor that is the parameter weight and
\* the tensor that is the attribute data.  "init" is the tensor the layer's
\* constructor drew, "w[0]" and "w[1]" are the halves of the loaded weight.
InitConv ==
    [ real |-> [weight |-> "init", data |-> "unset"],
      imag |-> [weight |-> "init", data |-> "unset"] ]
\* self.conv.real.data = w[0]; self.conv.imag.data = w[1]: conv.real and
\* conv.imag are the layers, so the assignments set an attribute data on
\* each and leave its parameter weight alone.
LoadConv(cv) == [cv EXCEPT !.real.data = "w[0]", !.imag.data = "w[1]"]

NoEnh ==
    [ phase |-> "none", cls |-> "none", cfg |-> NoEnhCfg, err |-> NoErr,
      B |-> 0, C |-> 0, conv |-> InitConv, norm |-> NoNorm, training |-> TRUE,
      calls |-> <<>> ]

Failed(cls, c, err) ==
    [NoEnh EXCEPT !.phase = "failed", !.cls = cls, !.cfg = c, !.err = err]
Built(cls, c) ==
    [NoEnh EXCEPT !.phase = "built", !.cls = cls, !.cfg = c,
                  !.B = c.spatial_filters, !.C = c.num_channels,
                  !.conv = IF c.weight.given /\ cls # "TimeVariantEnh"
                           THEN LoadConv(InitConv) ELSE InitConv,
                  !.norm = IF c.batchnorm THEN FreshNorm ELSE NoNorm]

\* TimeInvariantEnh.__init__
TimeInvariantEnh_init(c) ==
    /\ enh.phase = "none"
    /\ enh' = IF c.spectra_init \notin {"mel", "random"}
              THEN Failed("TimeInvariantEnh", c,
                          Err("ValueError", "Unsupported init method",
                              <<c.spectra_init>>))
              ELSE IF weight_check(c) # NoErr
              THEN Failed("TimeInvariantEnh", c, weight_check(c))
              ELSE Built("TimeInvariantEnh", c)
    /\ UNCHANGED enh_frame

\* TimeInvariantAttEnh.__init__
TimeInvariantAttEnh_init(c) ==
    /\ enh.phase = "none"
    /\ enh' = IF c.spectra_init \notin {"mel", "random"}
              THEN Failed("TimeInvariantAttEnh", c,
                          Err("ValueError", "Unsupported init method",
                              <<c.spectra_init>>))
              ELSE IF c.query_type \notin {"rnn", "conv"}
              THEN Failed("TimeInvariantAttEnh", c,
                          Err("ValueError", "Unsupported query type",
                              <<c.query_type>>))
              ELSE IF weight_check(c) # NoErr
              THEN Failed("TimeInvariantAttEnh", c, weight_check(c))
              ELSE Built("TimeInvariantAttEnh", c)
    /\ UNCHANGED enh_frame

\* TimeVariantEnh.__init__: no weight, spectra_init or query_type.
TimeVariantEnh_init(c) ==
    /\ enh.phase = "none"
    /\ enh' = Built("TimeVariantEnh", c)
    /\ UNCHANGED enh_frame

EnhInit == enh = NoEnh

\* The constructors of the models and layers.  The front-ends are built
\* with batch normalisation and the logarithm, the defaults.
BuildNext ==
    \/ \E sos \in Ids, eos \in Ids : AttASR_init(sos, eos, 0)
    \/ \E blank \in Ids, dec_type \in {"rnn", "xfmr"} :
           TransducerASR_init(blank, "xfmr", dec_type, 0)
    \/ \E blank \in Ids, dec_type \in {"rnn", "xfmr"} :
           XfmrTransducerASR_init(blank, "xfmr", dec_type, 0)
    \/ \E cls \in LayerClasses, activation \in Activations :
           EncoderLayer_init(cls, activation, FALSE)
    \/ \E enh_transform \in {"none", "given"} : Phasen_init(enh_transform)
    \/ \E c \in EnhCfgs :
           /\ c.batchnorm /\ c.apply_log /\ c.query_type = "rnn"
           /\ TimeInvariantEnh_init(c)
    \/ \E c \in EnhCfgs :
           /\ c.batchnorm /\ c.apply_log
           /\ TimeInvariantAttEnh_init(c)
    \/ \E c \in EnhCfgs :
           /\ c.batchnorm /\ c.apply_log
           /\ c.query_type = "rnn" /\ c.spectra_init = "random"
           /\ ~c.weight.given
           /\ TimeVariantEnh_init(c)

\* ------------------------------------------------- front-end forward

\* The frames of an utterance (N = 1, F = 1, T = 2).
Frames == 1..2
\* An input of C channels whose entries alternate from frame to frame.
EnhInputs == [C : Channels, a : 0..1]
XOf(inp) ==
    [t \in Frames |->
        [complex |-> TRUE,
         v |-> [c \in 1..inp.C |-> [re |-> (inp.a + t) % 2, im |-> 0]]]]

\* The square root on the integer grid, and the logarithm of f + eps with
\* eps standing as the unit of the grid.
Isqrt(n) == CHOOSE k \in 0..n : k * k <= n /\ n < (k + 1) * (k + 1)
RECURSIVE Log2(_)
Log2(n) == IF n <= 1 THEN 0 ELSE 1 + Log2(n \div 2)
FracFloor(a) == a.num \div a.den
FracLog(a) == Frac(Log2(FracFloor(a) + 1), 1)
FracSquare(a) == Frac(a.num * a.num, a.den * a.den)
FracAbsDiff(a, b) ==
    LET n == a.num * b.den - b.num * a.den
    IN  Frac(IF n < 0 THEN 0 - n ELSE n, a.den * b.den)

\* A beamformer of the front-end: the complex convolution of beam b, with
\* weights that tell the beams apart.
Beamformer(C, b) ==
    [C |-> C, real |-> [c \in 1..C |-> 3 * b - 2], imag |-> [c \in 1..C |-> 1]]
\* self.conv(x, add_abs=True): the magnitude of each beam at each frame.
BeamAbs(C, B, x) ==
    [t \in Frames |-> [b \in 1..B |->
        Isqrt(ComplexConvXd_forward(Beamformer(C, b), x[t], TRUE).re)]]
\* The entries of a tensor of the spatial convolution, for beam b: those the
\* constructor drew, or those of the loaded weight.
WeightTensor(tag, part, C, b) ==
    IF tag = "init" THEN Beamformer(C, b)[part]
    ELSE IF tag = "w[0]" THEN [c \in 1..C |-> 2 * b + 1]
    ELSE [c \in 1..C |-> 2]
\* The kernel ComplexConvXd.forward convolves with: self.real and self.imag
\* called as layers, which read their parameter weight.
SpatialConv(m, b) ==
    [ C |-> m.C,
      real |-> WeightTensor(m.conv.real.weight, "real", m.C, b),
      imag |-> WeightTensor(m.conv.imag.weight, "imag", m.C, b) ]
\* self.conv(x, add_abs=True) of the spatial convolution.
SpatialAbs(m, x) ==
    [t \in Frames |-> [b \in 1..m.B |->
        Isqrt(ComplexConvXd_forward(SpatialConv(m, b), x[t], TRUE).re)]]
\* The kernels of all the beams, as forward used them.
UsedConv(m) == [b \in 1..m.B |-> SpatialConv(m, b)]

\* The layout of a tensor: its shape and the stride of each dimension.
RECURSIVE Numel(_)
Numel(shape) == IF shape = <<>> THEN 1 ELSE Head(shape) * Numel(Tail(shape))
RECURSIVE RowMajor(_)
RowMajor(shape) ==
    IF shape = <<>> THEN <<>> ELSE <<Numel(Tail(shape))>> \o RowMajor(Tail(shape))
\* t.contiguous()
contiguous(t) == [shape |-> t.shape, stride |-> RowMajor(t.shape)]
\* t.transpose(i, j), dimensions counted from 0
transpose(t, i, j) ==
    [ shape |-> [t.shape EXCEPT ![i + 1] = t.shape[j + 1],
                                ![j + 1] = t.shape[i + 1]],
      stride |-> [t.stride EXCEPT ![i + 1] = t.stride[j + 1],
                                  ![j + 1] = t.stride[i + 1]] ]
\* The place in storage of the p-th entry (in reading order) of a tensor.
RECURSIVE PlaceOf(_, _, _)
PlaceOf(shape, stride, p) ==
    IF shape = <<>> THEN 0
    ELSE (p \div Numel(Tail(shape))) * Head(stride)
         + PlaceOf(Tail(shape), Tail(stride), p % Numel(Tail(shape)))
\* t.view(shape): a tensor of the new shape over the same storage, which
\* exists when some strides read the entries in the same order; otherwise
\* view raises.  The only strides that can do so step, in each dimension,
\* from the first entry to the next one along it.
Strides(t, shape) ==
    LET st == [k \in 1..Len(shape) |->
                 IF shape[k] = 1 THEN 0
                 ELSE PlaceOf(t.shape, t.stride,
                              Numel(SubSeq(shape, k + 1, Len(shape))))]
    IN  IF \A p \in 0..(Numel(shape) - 1) :
              PlaceOf(shape, st, p) = PlaceOf(t.shape, t.stride, p)
        THEN {st} ELSE {}
strided_view(t, shape) ==
    IF Numel(shape) # Numel(t.shape) \/ Strides(t, shape) = {}
    THEN [err |-> Err("RuntimeError", "view size is not compatible", <<>>),
          shape |-> <<>>]
    ELSE [err |-> NoErr, shape |-> shape]

\* A BatchNorm that counts its batches in evaluation mode as well.
batch_norm_counts_in_eval(bn, f, training) ==
    LET mean == FracDiv(FracAdd(f[1], f[2]), 2)
        var == FracDiv(FracSquare(FracAbsDiff(f[1], f[2])), 4)
    IN  IF ~bn.on
        THEN [ norm |-> bn,
               y |-> [t \in Frames |->
                        [f |-> f[t], mean |-> Frac(0, 1), var |-> Frac(1, 1)]] ]
        ELSE [ norm |-> [bn EXCEPT !.num_batches_tracked = @ + 1],
               y |-> [t \in Frames |->
                        IF training
                        THEN [f |-> f[t], mean |-> mean, var |-> var]
                        ELSE [f |-> f[t], mean |-> bn.running_mean,
                              var |-> bn.running_var]] ]

\* nn.BatchNorm forward on the features of the two frames.  In training
\* mode the features are normalised with the statistics of the batch and
\* the running statistics are updated (momentum 0.1); in evaluation mode
\* they are normalised with the running statistics.  The result holds, for
\* each frame, the feature and the mean and variance it is normalised with.
batch_norm(bn, f, training) ==
    LET mean == FracDiv(FracAdd(f[1], f[2]), 2)
        var == FracDiv(FracSquare(FracAbsDiff(f[1], f[2])), 4)
        unbiased == FracDiv(FracSquare(FracAbsDiff(f[1], f[2])), 2)
    IN  IF ~bn.on
        THEN [ norm |-> bn,
               y |-> [t \in Frames |->
                        [f |-> f[t], mean |-> Frac(0, 1), var |-> Frac(1, 1)]] ]
        ELSE IF training
        THEN [ norm |-> [ on |-> TRUE,
                          running_mean |->
                              FracAdd(FracDiv(FracMul(bn.running_mean, 9), 10),
                                      FracDiv(mean, 10)),
                          running_var |->
                              FracAdd(FracDiv(FracMul(bn.running_var, 9), 10),
                                      FracDiv(unbiased, 10)),
                          num_batches_tracked |-> bn.num_batches_tracked + 1 ],
               y |-> [t \in Frames |->
                        [f |-> f[t], mean |-> mean, var |-> var]] ]
        ELSE [ norm |-> bn,
               y |-> [t \in Frames |->
                        [f |-> f[t], mean |-> bn.running_mean,
                         var |-> bn.running_var]] ]

NoOutput ==
    [err |-> NoErr, norm |-> NoNorm, y |-> <<>>, shape |-> <<>>, used |-> <<>>]
ChannelError(m, C) ==
    [ err |-> Err("RuntimeError", "Expect input channel", <<m.C, C>>),
      norm |-> m.norm, y |-> <<>>, shape |-> <<>>, used |-> <<>> ]
\* What forward returns once its last view is taken: the features, or the
\* error of the view.
Viewed(v, bn, y, used) ==
    [ err |-> v.err, norm |-> bn,
      y |-> IF v.err = NoErr THEN y ELSE <<>>,
      shape |-> v.shape, used |-> used ]

\* TimeInvariantEnh.forward on one utterance, the first beam of the result.
\* The features are viewed as N x T x B x D, transposed for the norm,
\* transposed back and made contiguous, then viewed as N x T x BD.
TimeInvariantEnh_forward(m, inp) ==
    IF inp.C # m.C THEN ChannelError(m, inp.C)
    ELSE LET b == SpatialAbs(m, XOf(inp))
             f == [t \in Frames |->
                     IF m.cfg.apply_log THEN FracLog(Frac(b[t][1], 1))
                     ELSE Frac(b[t][1], 1)]
             n == batch_norm(m.norm, f, m.training)
             T == Len(f)
             D == SpectraFilters
             ntbd == contiguous([shape |-> <<1, T, m.B, D>>])
             nbtd == transpose(ntbd, 1, 2)
             back == contiguous(transpose(nbtd, 1, 2))
         IN  Viewed(strided_view(back, <<1, T, m.B * D>>), n.norm, n.y,
                    UsedConv(m))

\* TimeVariantEnh.forward with time_reception = 1 on one utterance, the
\* first beam of the result: the logarithm is always taken.  The features
\* N x T x B x D are transposed for the norm, made contiguous and then
\* transposed back, and that tensor is viewed as N x T x BD.
TimeVariantEnh_forward(m, inp) ==
    IF inp.C # m.C THEN ChannelError(m, inp.C)
    ELSE LET b == SpatialAbs(m, XOf(inp))
             f == [t \in Frames |-> FracLog(Frac(b[t][1], 1))]
             n == batch_norm(m.norm, f, m.training)
             T == Len(f)
             D == SpectraFilters
             ntbd == contiguous([shape |-> <<1, T, m.B, D>>])
             nbtd == transpose(ntbd, 1, 2)
             back == transpose(contiguous(nbtd), 1, 2)
         IN  Viewed(strided_view(back, <<1, T, m.B * D>>), n.norm, n.y,
                    UsedConv(m))

\* The query of TimeInvariantAttEnh: the magnitude of a beamformer of one
\* beam, or the recurrent encoder over channel 0, whose dropout (0.2) may
\* zero the query in training mode (drop).
Query(m, x, drop) ==
    IF m.cfg.query_type = "conv"
    THEN [t \in Frames |-> BeamAbs(m.C, 1, x)[t][1]]
    ELSE [t \in Frames |->
            IF m.training /\ drop THEN 0
            ELSE Isqrt(x[t].v[1].re * x[t].v[1].re
                       + x[t].v[1].im * x[t].v[1].im)]

\* TimeInvariantAttEnh.forward: the beams weighted by the softmax of the
\* scores of the query against the keys, averaged over the frames.
TimeInvariantAttEnh_forward(m, inp, drop) ==
    IF inp.C # m.C THEN ChannelError(m, inp.C)
    ELSE LET x == XOf(inp)
             bq == Query(m, x, drop)
             bv == SpatialAbs(m, x)
             bk == BeamAbs(m.C, m.B, x)
             s == [b \in 1..m.B |->
                     SumTo([t \in Frames |-> bq[t] * bk[t][b]], 2) \div 2]
             den == SumTo([b \in 1..m.B |-> 2 ^ s[b]], m.B)
             w == [b \in 1..m.B |-> Frac(2 ^ s[b], den)]
             v == [t \in Frames |->
                     FracSumTo([b \in 1..m.B |-> FracMul(w[b], bv[t][b])],
                               m.B)]
             f == [t \in Frames |->
                     IF m.cfg.apply_log THEN FracLog(v[t]) ELSE v[t]]
             n == batch_norm(m.norm, f, m.training)
         IN  [ err |-> NoErr, norm |-> n.norm, y |-> n.y,
               shape |-> <<1, Len(f), SpectraFilters>>, used |-> UsedConv(m) ]

\* nn.Module.train(mode) and nn.Module.eval()
Enh_train(training) ==
    /\ enh.phase = "built"
    /\ enh.training # training
    /\ enh' = [enh EXCEPT !.training = training]
    /\ UNCHANGED enh_frame

\* A forward call of the front-end: the module takes the BatchNorm state
\* the call leaves, and the call is recorded with the mode it ran in.
Enh_forward(inp, drop) ==
    /\ enh.phase = "built"
    /\ Len(enh.calls) < MaxFwd
    /\ LET got == IF enh.cls = "TimeInvariantEnh"
                  THEN TimeInvariantEnh_forward(enh, inp)
                  ELSE IF enh.cls = "TimeVariantEnh"
                  THEN TimeVariantEnh_forward(enh, inp)
                  ELSE TimeInvariantAttEnh_forward(enh, inp, drop)
       IN  enh' = [enh EXCEPT
                     !.norm = got.norm,
                     !.calls = Append(@, [ x |-> inp,
                                           training |-> enh.training,
                                           err |-> got.err, y |-> got.y,
                                           shape |-> got.shape,
                                           used |-> got.used,
                                           before |-> enh.norm,
                                           after |-> got.norm ])]
    /\ UNCHANGED enh_frame

\* The weight file, if one is named, holds a tensor of the configured shape.
WeightFits(c) ==
    c.weight.given =>
        /\ c.weight.beams = c.spatial_filters
        /\ c.weight.channels = c.num_channels

\* Front-ends that were built, called in either mode.  The attention
\* front-end takes the logarithm, the default.
EnhNext ==
    \/ \E c \in EnhCfgs :
           /\ c.spectra_init = "random" /\ WeightFits(c)
           /\ c.query_type = "rnn"
           /\ TimeInvariantEnh_init(c)
    \/ \E c \in EnhCfgs :
           /\ c.spectra_init = "random" /\ WeightFits(c)
           /\ c.query_type \in {"rnn", "conv"} /\ c.apply_log
           /\ TimeInvariantAttEnh_init(c)
    \/ \E c \in EnhCfgs :
           /\ c.spectra_init = "random" /\ ~c.weight.given
           /\ c.query_type = "rnn" /\ c.apply_log
           /\ TimeVariantEnh_init(c)
    \/ \E training \in BOOLEAN : Enh_train(training)
    \/ \E inp \in EnhInputs, drop \in BOOLEAN : Enh_forward(inp, drop)

\* ------------------------------------------------- masks

\* The lengths of a batch: up to MaxBatch sequences of up to AttnLen + 1
\* frames.
Lengths == 0..(AttnLen + 1)
LengthVecs == UNION { [1..N -> Lengths] : N \in 0..MaxBatch }
RECURSIVE MaxOf(_, _)
MaxOf(vec, n) == IF n = 1 THEN vec[1] ELSE Max(vec[n], MaxOf(vec, n - 1))

NoMatrix == [err |-> "none", shape |-> <<0, 0>>, at |-> <<>>]
\* A padding_mask that compares with > instead of >=.
padding_mask_strict(vec) ==
    LET N == Len(vec)
    IN  IF N = 0 THEN [NoMatrix EXCEPT !.err = "RuntimeError"]
        ELSE LET M == MaxOf(vec, N)
                 templ == [n \in 1..N |-> [t \in 1..M |-> t - 1]]
             IN  [ err |-> "none", shape |-> <<N, M>>,
                   at |-> Tuple([n \in 1..N |-> Tuple([t \in 1..M |->
                             templ[n][t] > vec[n]])]) ]
\* padding_mask: vec.max() of an empty vector raises; otherwise the row
\* 0, 1, .., M - 1 repeated N times and compared with the lengths.
padding_mask(vec) ==
    LET N == Len(vec)
    IN  IF N = 0 THEN [NoMatrix EXCEPT !.err = "RuntimeError"]
        ELSE LET M == MaxOf(vec, N)
                 templ == [n \in 1..N |-> [t \in 1..M |-> t - 1]]
             IN  [ err |-> "none", shape |-> <<N, M>>,
                   at |-> Tuple([n \in 1..N |-> Tuple([t \in 1..M |->
                             templ[n][t] >= vec[n]])]) ]

NoMasks ==
    [ vec |-> <<>>, padded |-> FALSE, key_padding_mask |-> NoMatrix,
      T |-> 0, subbed |-> FALSE, attn_mask |-> NoMask,
      called |-> FALSE, weight |-> <<>> ]

\* key_padding_mask = padding_mask(key_len)
PaddingMask_call(vec) ==
    /\ ~masks.padded
    /\ masks' = [masks EXCEPT !.vec = vec, !.padded = TRUE,
                              !.key_padding_mask = padding_mask(vec)]
    /\ UNCHANGED mask_frame

\* attn_mask = prep_sub_mask(S)
PrepSubMask_call(T) ==
    /\ ~masks.subbed
    /\ masks' = [masks EXCEPT !.T = T, !.subbed = TRUE,
                              !.attn_mask = prep_sub_mask(T)]
    /\ UNCHANGED mask_frame

\* context_weight of a module of one head under both masks, for each
\* sequence of the batch: the weights of a self-attention over AttnLen
\* positions.
MaskedWeight_call(q) ==
    /\ masks.padded /\ masks.subbed /\ ~masks.called
    /\ masks.key_padding_mask.err = "none"
    /\ masks.key_padding_mask.shape[2] = AttnLen
    /\ masks.T = AttnLen
    /\ LET m == [embed_dim |-> 1, num_heads |-> 1, head_dim |-> 1,
                 bias |-> "zeros"]
           logit == [l \in Pos |-> [h \in 1..1 |-> [s \in Pos |->
                       (q + l + s) % 2]]]
           value == [s \in Pos |-> [e \in 1..1 |-> s]]
           N == masks.key_padding_mask.shape[1]
       IN  masks' = [masks EXCEPT
             !.called = TRUE,
             !.weight = [n \in 1..N |->
                 context_weight(
                     m, logit, value,
                     [given |-> TRUE,
                      pad |-> {s \in Pos : masks.key_padding_mask.at[n][s]}],
                     masks.attn_mask).weight]]
    /\ UNCHANGED mask_frame

MaskInit == masks = NoMasks

MaskNext ==
    \/ \E vec \in LengthVecs : PaddingMask_call(vec)
    \/ \E T \in Lengths : PrepSubMask_call(T)
    \/ \E q \in 0..1 : MaskedWeight_call(q)

\* ------------------------------------------------- PhasenConv2d

NoPconv ==
    [ phase |-> "none", kernel_size |-> <<0, 0>>, stride |-> <<0, 0>>,
      padding |-> <<0, 0>>, inp |-> <<0, 0>>, err |-> NoErr, y |-> <<0, 0>> ]

\* A PhasenConv2d that pads with half the kernel.
PhasenConv2d_init_half(kernel_size) ==
    /\ pconv.phase = "none"
    /\ pconv' = [pconv EXCEPT
                   !.phase = "built", !.kernel_size = kernel_size,
                   !.stride = <<1, 1>>,
                   !.padding = <<kernel_size[1] \div 2, kernel_size[2] \div 2>>]
    /\ UNCHANGED pconv_frame

\* PhasenConv2d.__init__
PhasenConv2d_init(kernel_size) ==
    /\ pconv.phase = "none"
    /\ pconv' = [pconv EXCEPT
                   !.phase = "built", !.kernel_size = kernel_size,
                   !.stride = <<1, 1>>,
                   !.padding = <<(kernel_size[1] - 1) \div 2,
                                 (kernel_size[2] - 1) \div 2>>]
    /\ UNCHANGED pconv_frame

\* The bins nn.Conv2d gives along one dimension (dilation 1); -1 when the
\* kernel is larger than the padded input, where the call raises.
conv_out(size, k, pad, stride) ==
    IF size + 2 * pad < k THEN 0 - 1
    ELSE ((size + 2 * pad - (k - 1) - 1) \div stride) + 1

\* nn.Conv2d.forward on an input of F x T bins
PhasenConv2d_call(F, T) ==
    /\ pconv.phase = "built"
    /\ LET y == [d \in 1..2 |->
                   conv_out(<<F, T>>[d], pconv.kernel_size[d], pconv.padding[d],
                            pconv.stride[d])]
       IN  pconv' = [pconv EXCEPT
               !.phase = "called", !.inp = <<F, T>>,
               !.err = IF y[1] < 0 \/ y[2] < 0
                       THEN Err("RuntimeError", "Kernel size can't be greater than actual input size", <<>>)
                       ELSE NoErr,
               !.y = IF y[1] < 0 \/ y[2] < 0 THEN <<0, 0>> ELSE y]
    /\ UNCHANGED pconv_frame

PconvInit == pconv = NoPconv

PconvNext ==
    \/ \E kf \in 1..MaxKernel, kt \in 1..MaxKernel : PhasenConv2d_init(<<kf, kt>>)
    \/ \E F \in 1..MaxBins, T \in 1..MaxBins : PhasenConv2d_call(F, T)

\* ------------------------------------------------- ApsTransformerEncoder

\* Parameter objects are told apart by their identity: a positive number; 0
\* stands for None. The caller of a layer constructor owns the objects 1 and 2.
NoParam == 0
CallerParams == {1, 2}
FirstFresh == 3

StackKwargs == [src_mask : BOOLEAN, src_key_padding_mask : BOOLEAN]
NoKwargs == [src_mask |-> FALSE, src_key_padding_mask |-> FALSE]
NoTemplate == [cls |-> "none", linear1 |-> NoParam, rel_u |-> NoParam, rel_v |-> NoParam]

\* XlMultiheadAttention.__init__, lines 261-268: rel_u and rel_v are created
\* when one of the two is None, and are the objects passed in otherwise.
XlMultiheadAttention_init(rel_u, rel_v, nxt) ==
    IF rel_u = NoParam \/ rel_v = NoParam
    THEN [rel_u |-> nxt, rel_v |-> nxt + 1, next |-> nxt + 2]
    ELSE [rel_u |-> rel_u, rel_v |-> rel_v, next |-> nxt]

\* TransformerXLEncoderLayer.__init__: the attention with rel_u and rel_v
\* handed on, and the feed-forward parameters of the base class.
TransformerXLEncoderLayer_init(rel_u, rel_v) ==
    LET att == XlMultiheadAttention_init(rel_u, rel_v, FirstFresh)
    IN  [ layer |-> [ cls |-> "TransformerXLEncoderLayer", linear1 |-> att.next,
                      rel_u |-> att.rel_u, rel_v |-> att.rel_v ],
          next |-> att.next + 1 ]

\* TransformerTorchEncoderLayer.__init__: no rel_u, no rel_v.
TransformerTorchEncoderLayer_init ==
    [ layer |-> [ cls |-> "TransformerTorchEncoderLayer", linear1 |-> FirstFresh,
                  rel_u |-> NoParam, rel_v |-> NoParam ],
      next |-> FirstFresh + 1 ]

\* The template layers a stack is built from.
Templates ==
    {TransformerTorchEncoderLayer_init}
        \cup { TransformerXLEncoderLayer_init(u, v) :
                   u \in {NoParam, 1}, v \in {NoParam, 1, 2} }

\* The parameter objects a layer holds.
Params(l) == {l.linear1, l.rel_u, l.rel_v} \ {NoParam}

\* A copy that makes new feed-forward parameters and keeps rel_u and rel_v.
deepcopy_keeps_rel(l, nxt) ==
    [ layer |-> [l EXCEPT !.linear1 = nxt], next |-> nxt + 1 ]

\* copy.deepcopy of a layer: every object reachable from it is copied once
\* (the memo of one call), so two references to one object stay one object.
deepcopy(l, nxt) ==
    LET ids == Params(l)
        new(id) == IF id = NoParam THEN NoParam
                   ELSE nxt + Cardinality({j \in ids : j < id})
    IN  [ layer |-> [ cls |-> l.cls, linear1 |-> new(l.linear1),
                      rel_u |-> new(l.rel_u), rel_v |-> new(l.rel_v) ],
          next |-> nxt + Cardinality(ids) ]

\* line 524-525: [copy.deepcopy(encoder_layer) for i in range(num_layers)]
RECURSIVE Copies(_, _, _)
Copies(encoder_layer, n, nxt) ==
    IF n <= 0 THEN <<>>
    ELSE LET c == deepcopy(encoder_layer, nxt)
         IN  <<c.layer>> \o Copies(encoder_layer, n - 1, c.next)

NoStack ==
    [ phase |-> "none", template |-> NoTemplate, layers |-> <<>>,
      num_layers |-> 0, nrm |-> "None", src |-> 0, kwargs |-> NoKwargs,
      output |-> <<>> ]

\* ApsTransformerEncoder.__init__, lines 519-527
ApsTransformerEncoder_init(t, num_layers, nrm) ==
    /\ stack.phase = "none"
    /\ stack' = [ NoStack EXCEPT !.phase = "built",
                                 !.template = t.layer,
                                 !.layers = Copies(t.layer, num_layers, t.next),
                                 !.num_layers = num_layers,
                                 !.nrm = nrm ]
    /\ UNCHANGED stack_frame

\* One module applied to the running output: the output records the module
\* (a layer by its feed-forward parameter, the norm by 0) and the keyword
\* arguments it was called with.
Applied(output, ref, kw) == Append(output, [op |-> ref, kwargs |-> kw])

\* lines 532-533: for mod in self.layers: output = mod(output, **kwargs)
RECURSIVE Layers_forward(_, _, _, _)
Layers_forward(layers, i, output, kw) ==
    IF i > Len(layers) THEN output
    ELSE Layers_forward(layers, i + 1, Applied(output, layers[i].linear1, kw), kw)

\* ApsTransformerEncoder.forward, lines 529-538
ApsTransformerEncoder_forward(src, kw) ==
    /\ stack.phase \in {"built", "called"}
    /\ LET output == Layers_forward(stack.layers, 1, <<>>, kw)
       IN  stack' = [ stack EXCEPT
                        !.phase = "called", !.src = src, !.kwargs = kw,
                        !.output = IF stack.nrm # "None"
                                   THEN Applied(output, NoParam, NoKwargs)
                                   ELSE output ]
    /\ UNCHANGED stack_frame

StackInit == stack = NoStack

StackNext ==
    \/ \E t \in Templates, n \in 0..MaxLayers, nrm \in {"None", "LayerNorm"} :
           ApsTransformerEncoder_init(t, n, nrm)
    \/ \E src \in 1..2, kw \in StackKwargs : ApsTransformerEncoder_forward(src, kw)

\* ------------------------------------------------- specification

TrainerInit ==
    /\ phase = "none"
    /\ cfg = NoCfg
    /\ setup = <<>>
    /\ task = NoTask
    /\ distributed = "unset"
    /\ cpt_stats = NoCpt
    /\ param = Fin(0)
    /\ grad = Absent
    /\ optimizer = 0
    /\ amp_state = 0
    /\ lr_scheduler = 0
    /\ epoch = 0
    /\ pc = "idle"
    /\ egs = NoEgs
    /\ stats = NoStats
    /\ norm = Absent
    /\ trace = <<>>
    /\ ret = "none"
    /\ pre = Fin(0)
    /\ drawn = 0
    /\ cpt = NoCpt
    /\ atSave = [ param |-> Fin(0), optimizer |-> 0, amp_state |-> 0,
                  lr_scheduler |-> 0, epoch |-> 0 ]
    /\ hist = <<>>
    /\ mode = "live"
    /\ pos = 1
    /\ same = TRUE
    /\ calls = 0
    /\ norm_skipped = FALSE

train_one_step ==
    \/ \E e \in EgsSet : ZeroGrad(e)
    \/ Forward
    \/ ScaledBackward
    \/ SkipLoss
    \/ ClipGradient
    \/ Step
    \/ SkipNorm
    \/ GaussianNoise
    \/ Report
    \/ SchedulerStep

vars == <<trainer_vars, dec_vars, lib_vars>>

Init ==
    /\ TrainerInit /\ DecInit /\ SearchInit /\ AttnInit
    /\ XlInit /\ LayerInit /\ ConvInit /\ EnhInit /\ SepInit /\ MaskInit
    /\ PconvInit /\ StackInit

\* Runs of the trainer, without checkpoints.
Next ==
    \/ \E c \in CfgSet : c.resume = FALSE /\ ApexTrainer_init(c)
    \/ train_one_step

Spec == Init /\ [][Next]_vars

\* Calls on an ASR model.
SpecDec == Init /\ [][DecNext]_vars

\* Attention beam searches followed step by step.
SpecSearch == Init /\ [][SearchNext]_vars

\* Calls of a multi-head attention module.
SpecAttn == Init /\ [][AttnNext]_vars

\* Calls of the Transformer-XL attention up to its logit.
SpecXl == Init /\ [][XlNext]_vars

\* Calls of a complex convolution layer.
SpecConv == Init /\ [][ConvNext]_vars

\* Constructions of the models and layers.
SpecBuild == Init /\ [][BuildNext]_vars

\* Forward calls of the enhancement front-ends.
SpecEnh == Init /\ [][EnhNext]_vars

\* The masks of a batch and the attention weights under them.
SpecMask == Init /\ [][MaskNext]_vars

\* Forward calls of the encoder layers.
SpecLayer == Init /\ [][LayerNext]_vars

\* Calls of a PhasenConv2d layer.
SpecPconv == Init /\ [][PconvNext]_vars

\* Stacks of encoder layers and their forward calls.
SpecStack == Init /\ [][StackNext]_vars

\* Runs with checkpoints: the driver saves at the end of an epoch, and the
\* process may be started again from the saved checkpoint.
NextResume ==
    \/ \E c \in ResumeCfgSet : ApexTrainer_init(c)
    \/ train_one_step
    \/ SaveCheckpoint

SpecResume == Init /\ [][NextResume]_vars

\* ------------------------------------------------- properties

NonFinite(x) == x.k \in {"nan", "inf", "ninf"}

\* The operations of one call in the order of the code, the skip diagnostic last.
CanonicalOrder ==
    <<"zero_grad", "forward", "backward", "clip", "step", "noise", "report",
      "sched", "log">>
Rank(a) == CHOOSE i \in 1..Len(CanonicalOrder) : CanonicalOrder[i] = a
Ran(a) == \E i \in 1..Len(trace) : trace[i] = a

\* A step taken inside a call of train_one_step (its first step included).
InCallStep == pc # "idle" \/ pc' = "forward"

\* C1: when the forward pass yields a non-finite loss (NaN, +inf or -inf),
\* the call runs no backward pass and no optimizer step, returns False, and
\* leaves every parameter at its pre-step value.
C1_NonFiniteLossSkipsStep ==
    [][ (pc = "check_loss" /\ NonFinite(stats.loss))
          => /\ pc' = "idle"
             /\ ret' = "False"
             /\ trace' = <<"zero_grad", "forward", "log">>
             /\ param' = pre
             /\ param' = param ]_vars

C1_Witness ==
    /\ pc = "idle"
    /\ ret = "False"
    /\ trace = <<"zero_grad", "forward", "log">>
    /\ calls >= 2
    /\ param # Fin(0)
    /\ param = pre

\* C2: with gradient clipping enabled, a finite loss and a non-finite norm
\* returned by the clipping, the optimizer step, the noise injection and the
\* scheduler update are skipped, the call returns False, the parameters keep
\* their pre-step values and the trainer stays ready for later calls.
C2_NonFiniteNormSkipsStep ==
    [][ (pc = "check_norm" /\ NonFinite(norm))
          => /\ cfg.clip_gradient
             /\ pc' = "idle"
             /\ ret' = "False"
             /\ trace' = <<"zero_grad", "forward", "backward", "clip", "log">>
             /\ param' = pre
             /\ param' = param
             /\ lr_scheduler' = lr_scheduler
             /\ optimizer' = optimizer
             /\ phase' = "ready" ]_vars

\* A later call completes a normal update after a skip for the norm.
C2_Witness ==
    /\ norm_skipped
    /\ cfg.clip_gradient
    /\ pc = "idle"
    /\ ret = "True"
    /\ Ran("step")
    /\ param # pre

\* C3: in every call the operations run in the order zero_grad, forward,
\* backward, clip, step, noise, (report,) scheduler update, none of them
\* twice; the optimizer step never runs without the backward pass of the
\* same call before it, and clipping never runs after the optimizer step.
C3_StepOrder ==
    /\ \A i, j \in 1..Len(trace) :
           i < j => Rank(trace[i]) < Rank(trace[j])
    /\ trace # <<>> => trace[1] = "zero_grad"
    /\ Ran("step") => Ran("backward")
    /\ Ran("backward") => Ran("forward")

C3_Witness ==
    trace = <<"zero_grad", "forward", "backward", "clip", "step", "noise",
              "report", "sched">>

\* C4: the construction fails when the backend is neither torch nor none, or
\* when apex is not available, and a failed construction has run no step of
\* setup_distributed: no wrapped task exists after it.
C4_ConstructionChecks ==
    /\ phase = "failed"
         => /\ setup = <<>>
            /\ task = NoTask
            /\ distributed = "unset"
    /\ (phase # "none" /\ (cfg.backend \notin {"torch", "none"}
                            \/ ~cfg.apex_available))
         => phase = "failed"
    /\ phase = "ready"
         => /\ Len(setup) >= 2
            /\ setup[1] = "syncbn"
            /\ setup[2] = "amp_init"

C4_Witness ==
    /\ phase = "failed"
    /\ cfg.backend = "torch"
    /\ ~cfg.apex_available
    /\ cfg.cuda_devices >= 2

C6_CheckpointStates ==
    phase = "ready"
      => /\ \A e \in 0..MaxEpoch :
               LET cs == checkpoint_states(e)
               IN  /\ DOMAIN cs = {"epoch", "amp_state_dict", "model_state_dict",
                                   "optim_state_dict", "lr_scheduler_dict"}
                   /\ cs.epoch = e
                   /\ cs.amp_state_dict = amp_state
                   /\ cs.model_state_dict = param
                   /\ cs.optim_state_dict = optimizer
                   /\ cs.lr_scheduler_dict = lr_scheduler
         /\ (distributed = "yes") <=> task.wrapped
         /\ task.wrapped <=> (cfg.cuda_devices >= 2)
         /\ distributed \in {"yes", "no"}

C6_Witness ==
    /\ phase = "ready"
    /\ task.wrapped
    /\ cpt # NoCpt
    /\ cpt.model_state_dict # Fin(0)
    /\ cpt.model_state_dict = param

\* C7 as stated: inside train_one_step only the optimizer step writes the
\* parameters.
C7_OnlyOptimizerWrites ==
    [][ (InCallStep /\ pc # "check_norm") => param' = param ]_vars

\* C7 as amended: inside train_one_step the parameters are written only by
\* the optimizer step and, when gaussian_noise_std is set, by the noise
\* injection that follows it.
C7_OnlyOptimizerAndNoiseWrite ==
    [][ /\ (InCallStep /\ pc \notin {"check_norm", "noise"}) => param' = param
        /\ (pc = "noise" /\ ~cfg.gaussian_noise_std) => param' = param ]_vars

C7_Witness ==
    /\ pc = "report"
    /\ Ran("noise")
    /\ Ran("clip")
    /\ drawn = 0
    /\ param # pre

\* ------------------------------------------------- decoding

C9_VectorizedSameTop1 ==
    out.fn = "att_beam" /\ out.rel = "vec" => out.trans = memo.trans

\* C10: beam search of width 1 returns the token sequence of greedy search
\* on the same input and model, when no two tokens tie on the greedy path.
C10_Beam1IsGreedy ==
    out.rel = "beam1" /\ ~out.tie => out.trans = memo.trans

\* C10, amended: the same, for searches without a language model (lm None or
\* lm_weight 0).
C10_Beam1IsGreedyWithoutLm ==
    out.rel = "beam1" /\ ~out.tie /\ ~out.lm_on => out.trans = memo.trans

\* A beam search of width 1 without language model after a greedy search of
\* the same input, no tie on the way, some token and some blank emitted.
C10_Witness ==
    /\ out.fn = "beam"
    /\ out.rel = "beam1"
    /\ ~out.tie
    /\ ~out.lm_on
    /\ out.trans # <<>>
    /\ Len(out.trans) < MaxSym
    /\ out.trans = memo.trans

\* ------------------------------------------------- length bound

ValidAttnMask(mask) ==
    \A l \in Pos, s \in Pos : mask.m[l][s].k \in {"fin", "ninf"}

\* C12: for every valid query, key, value, key-padding mask and additive
\* mask, forward returns the context and the head-averaged weights that
\* torch_forward returns with the same parameters.
C12_ForwardIsTorchForward ==
    attn.phase = "called" /\ ValidAttnMask(attn.inp.attn_mask)
        => /\ attn.my.err = "none"
           /\ attn.th.err = "none"
           /\ attn.my.context = attn.th.context
           /\ attn.my.weight = attn.th.weight

\* With the input bias of the default construction the two calls agree.
C12_BiasedForwardIsTorchForward ==
    attn.phase = "called" /\ attn.m.bias # "none"
                          /\ ValidAttnMask(attn.inp.attn_mask)
        => attn.my = attn.th /\ attn.my.err = "none"


\* The weights context_weight returned to the last call, if it was reached.
HasWeights == attn.phase = "called" /\ attn.m.bias # "none"
Padded(s) ==
    attn.inp.key_padding_mask.given /\ s \in attn.inp.key_padding_mask.pad
MaskAt(l, s) ==
    IF attn.inp.attn_mask.given THEN attn.inp.attn_mask.m[l][s] ELSE Fin(0)
\* Row l keeps a key that neither mask removes.
KeepsKey(l) == \E s \in Pos : ~Padded(s) /\ MaskAt(l, s).k = "fin"
\* The additive mask of row l holds a finite value or -inf at every key but s.
RowValidBut(l, s) ==
    \A t \in Pos \ {s} : MaskAt(l, t).k \in {"fin", "ninf"}

C14_RelShiftKeepsShape ==
    xl.phase = "called"
        => /\ xl.shifted.shape = xl.term_bd.shape
           /\ xl.logit.err = "none" /\ ~xl.logit.broadcast


\* ------------------------------------------------- enhancement front-ends

\* The product and the sum of complex numbers.
CMul(a, b) ==
    [re |-> a.re * b.re - a.im * b.im, im |-> a.re * b.im + a.im * b.re]
RECURSIVE CSumTo(_, _)
CSumTo(f, n) ==
    IF n = 0 THEN [re |-> 0, im |-> 0]
    ELSE LET rest == CSumTo(f, n - 1)
         IN  [re |-> rest.re + f[n].re, im |-> rest.im + f[n].im]
\* The convolution of the last input with the complex kernel real + j * imag.
ComplexConvolution ==
    CSumTo([c \in 1..conv.m.C |->
               CMul([re |-> conv.m.real[c], im |-> conv.m.imag[c]], conv.x.v[c])],
           conv.m.C)

\* C15: on a complex input ComplexConvXd.forward returns the complex
\* convolution of the input with the kernel real + j * imag, and with add_abs
\* the square root of its squared magnitude plus eps.
C15_ComplexConvolution ==
    conv.phase = "called" /\ conv.x.complex
        => /\ conv.y.err = "none"
           /\ ~conv.add_abs
                => /\ conv.y.kind = "complex"
                   /\ conv.y.re = ComplexConvolution.re
                   /\ conv.y.im = ComplexConvolution.im
           /\ conv.add_abs
                => /\ conv.y.kind = "abs"
                   /\ conv.y.re = ComplexConvolution.re * ComplexConvolution.re
                                  + ComplexConvolution.im * ComplexConvolution.im

\* A call on two channels whose products do not cancel: the real part mixes
\* the two kernels.
C15_Witness ==
    /\ conv.phase = "called" /\ conv.x.complex /\ ~conv.add_abs
    /\ conv.m.C = 2
    /\ \A c \in 1..2 : conv.x.v[c].re = 1 /\ conv.x.v[c].im = 1
    /\ conv.m.real = <<2, 2>> /\ conv.m.imag = <<1, 1>>
    /\ conv.y.re = 2 /\ conv.y.im = 6


\* ------------------------------------------------- construction checks

\* C16: building a model with a negative special token fails (AttASR on a
\* negative sos or eos, the transducers on a negative blank), the defaults
\* being -1, and no model that was built holds a negative sos, eos or blank.
IdsChecked ==
    dphase = "built"
        => /\ (asr.kind = "att" => (asr.sos >= 0 /\ asr.eos >= 0))
           /\ (asr.kind \in {"transducer", "xfmr_transducer"}
                 => asr.blank >= 0)
C16_NegativeIdsRejected ==
    /\ []IdsChecked
    /\ [][ /\ \A sos \in Ids, eos \in Ids, w \in 0..MaxWeight :
                (AttASR_init(sos, eos, w) /\ (sos < 0 \/ eos < 0))
                    => dphase' = "failed"
           /\ \A enc_type \in {"xfmr", "common"}, dec_type \in {"rnn", "xfmr"},
                 w \in 0..MaxWeight :
                (\/ TransducerASR_init(0 - 1, enc_type, dec_type, w)
                 \/ XfmrTransducerASR_init(0 - 1, enc_type, dec_type, w))
                    => dphase' = "failed" ]_vars

\* An AttASR built with the default sos and eos: the constructor raised.
C16_Witness ==
    /\ dphase = "failed"
    /\ asr.err = Err("RuntimeError", "Unsupported SOS/EOS value",
                     <<0 - 1, 0 - 1>>)

\* C17: an unsupported spectra_init, query_type, activation or dec_type
\* raises in the constructor, so that no module that was built holds one.
NamesChecked ==
    /\ (enh.cls \in {"TimeInvariantEnh", "TimeInvariantAttEnh"}
        /\ enh.cfg.spectra_init \notin {"mel", "random"})
          => (enh.phase = "failed" /\ enh.err.type = "ValueError")
    /\ (enh.cls = "TimeInvariantAttEnh"
        /\ enh.cfg.query_type \notin {"rnn", "conv"})
          => (enh.phase = "failed" /\ enh.err.type = "ValueError")
    /\ (layer.phase # "none" /\ layer.activation \notin {"relu", "gelu"})
          => (layer.phase = "failed" /\ layer.err.type = "RuntimeError")
    /\ (layer.phase = "built" => layer.fn \in {"ReLU", "GELU"})
C17_UnsupportedNamesRejected ==
    /\ []NamesChecked
    /\ [][ \A blank \in Ids, enc_type \in {"xfmr", "common"},
              dec_type \in {"rnn", "xfmr"}, w \in 0..MaxWeight :
             /\ (TransducerASR_init(blank, enc_type, dec_type, w)
                 /\ dec_type # "rnn")
                  => dphase' = "failed"
             /\ (XfmrTransducerASR_init(blank, enc_type, dec_type, w)
                 /\ dec_type # "xfmr")
                  => dphase' = "failed" ]_vars

\* All four rejections met: an encoder layer asked for tanh, an attention
\* front-end asked for an lstm query, a TransducerASR asked for another
\* decoder; a second front-end would fail on spectra_init in the same way.
C17_Witness ==
    /\ layer.phase = "failed" /\ layer.activation = "tanh"
    /\ enh.phase = "failed" /\ enh.cls = "TimeInvariantAttEnh"
    /\ enh.err = Err("ValueError", "Unsupported query type", <<"lstm">>)
    /\ dphase = "failed"
    /\ asr.err = Err("ValueError", "currently decoder must be rnn", <<>>)

\* C18: TimeInvariantEnh and TimeInvariantAttEnh given a weight raise when
\* its channels differ from num_channels or its beams from spatial_filters:
\* a front-end built with a weight has both equal.
C18_WeightShapeChecked ==
    (enh.cls \in {"TimeInvariantEnh", "TimeInvariantAttEnh"}
     /\ enh.cfg.weight.given)
        => /\ (\/ enh.cfg.weight.channels # enh.cfg.num_channels
               \/ enh.cfg.weight.beams # enh.cfg.spatial_filters)
                => (/\ enh.phase = "failed"
                    /\ enh.err.type \in {"RuntimeError", "ValueError"})
           /\ enh.phase = "built"
                => (/\ enh.cfg.weight.channels = enh.C
                    /\ enh.cfg.weight.beams = enh.B)

\* A weight of two channels for a front-end of one channel, the beams equal.
C18_Witness ==
    /\ enh.phase = "failed" /\ enh.cls = "TimeInvariantEnh"
    /\ enh.cfg.weight.beams = enh.cfg.spatial_filters
    /\ enh.err = Err("RuntimeError", "Number of channels don't match", <<2, 1>>)

\* C19: Phasen built without an enh_transform raises, and a Phasen that was
\* built has its forward_stft and its inverse_stft.
C19_PhasenNeedsTransform ==
    /\ (sep.phase # "none" /\ sep.enh_transform = "none")
         => (sep.phase = "failed" /\ sep.err.type = "RuntimeError")
    /\ sep.phase = "built"
         => (sep.forward_stft # "none" /\ sep.inverse_stft # "none")

C19_Witness ==
    /\ sep.phase = "failed"
    /\ sep.err = Err("RuntimeError", "Missing configuration for enh_transform",
                     <<>>)


\* ------------------------------------------------- front-end purity

\* Call k left the module as it found it.
CallPure(k) == enh.calls[k].before = enh.calls[k].after
\* Calls k and k + 1 had the same input and ran in the same mode.
Repeated(k) ==
    /\ k + 1 <= Len(enh.calls)
    /\ enh.calls[k].x = enh.calls[k + 1].x
    /\ enh.calls[k].training = enh.calls[k + 1].training
SameResult(k) ==
    /\ enh.calls[k].err = enh.calls[k + 1].err
    /\ enh.calls[k].y = enh.calls[k + 1].y
\* The query of the module comes from the recurrent encoder.
RnnQuery == enh.cls = "TimeInvariantAttEnh" /\ enh.cfg.query_type = "rnn"

MaskOfBatch == masks.padded /\ Len(masks.vec) >= 1
\* M is the greatest of the lengths.
IsMaxLength(M) ==
    /\ \E n \in 1..Len(masks.vec) : masks.vec[n] = M
    /\ \A n \in 1..Len(masks.vec) : masks.vec[n] <= M
\* Row n of the padding mask, its entries counted from 0 as in the code.
RowEntry(n, t) == masks.key_padding_mask.at[n][t + 1]

\* C21: padding_mask(vec) is an N x max(vec) boolean matrix whose entry
\* (n, t) is true exactly when t >= vec[n]; row n holds vec[n] false entries
\* followed only by true ones, and the row of the longest sequence has no
\* true entry.
C21_PaddingMask ==
    MaskOfBatch =>
        LET r == masks.key_padding_mask
            N == r.shape[1]
            M == r.shape[2]
        IN  /\ r.err = "none"
            /\ N = Len(masks.vec) /\ IsMaxLength(M)
            /\ Len(r.at) = N
            /\ \A n \in 1..N :
                  /\ Len(r.at[n]) = M
                  /\ \A t \in 0..(M - 1) :
                        /\ RowEntry(n, t) \in BOOLEAN
                        /\ RowEntry(n, t) <=> (t >= masks.vec[n])
                  /\ Cardinality({t \in 0..(M - 1) : ~RowEntry(n, t)})
                        = masks.vec[n]
                  /\ \A t \in 0..(M - 2) : RowEntry(n, t) => RowEntry(n, t + 1)
                  /\ (masks.vec[n] = M) =>
                        (\A t \in 0..(M - 1) : ~RowEntry(n, t))

\* A batch of several lengths, one of them shorter than the longest and not
\* zero: its row has false and true entries.
C21_Witness ==
    /\ MaskOfBatch /\ Len(masks.vec) >= 2
    /\ \E n \in 1..Len(masks.vec) :
          /\ masks.vec[n] >= 1
          /\ masks.vec[n] < masks.key_padding_mask.shape[2]
          /\ ~RowEntry(n, 0)
          /\ RowEntry(n, masks.vec[n])

\* The weights of sequence n at query l, over the keys.
WeightRow(n, l) == masks.weight[n][l][1]
LengthsPositive == \A n \in 1..Len(masks.vec) : masks.vec[n] >= 1

\* C22: prep_sub_mask(T) is a T x T matrix with -inf at (i, j) exactly when
\* j > i and 0 elsewhere, the diagonal included; under it and a padding mask
\* built from lengths >= 1 no row of logits is all -inf, so every row of
\* weights is a distribution.
C22_SubMaskKeepsDiagonal ==
    /\ masks.subbed =>
          /\ Len(masks.attn_mask.m) = masks.T
          /\ \A i \in 1..masks.T :
                /\ Len(masks.attn_mask.m[i]) = masks.T
                /\ masks.attn_mask.m[i][i] = Fin(0)
                /\ \A j \in 1..masks.T :
                      masks.attn_mask.m[i][j]
                        = IF j > i THEN NegInf ELSE Fin(0)
    /\ (masks.called /\ LengthsPositive) =>
          \A n \in 1..Len(masks.vec), l \in Pos :
              /\ \A s \in Pos : ~WeightRow(n, l)[s].nan
              /\ FracSumTo(WeightRow(n, l), AttnLen) = Frac(1, 1)
              /\ WeightRow(n, l)[1].num > 0

\* A batch whose shorter sequence has padded keys, its weights taken under
\* both masks.
C22_Witness ==
    /\ masks.called /\ LengthsPositive /\ Len(masks.vec) >= 2
    /\ \E n \in 1..Len(masks.vec) :
          /\ masks.vec[n] < AttnLen
          /\ WeightRow(n, AttnLen)[AttnLen].num = 0
          /\ WeightRow(n, AttnLen)[1].num > 0

\* A sequence of length 0 has every key padded, and its rows are NaN.
EmptySequenceRowsNaN ==
    masks.called =>
        \A n \in 1..Len(masks.vec) :
            (masks.vec[n] = 0) => WeightRow(n, 1)[1].nan


\* ------------------------------------------------- front-end weights and shapes

\* The front-end was built from a weight file.
BuiltWithWeight ==
    /\ enh.phase = "built" /\ enh.cfg.weight.given
    /\ enh.cls \in {"TimeInvariantEnh", "TimeInvariantAttEnh"}
\* The halves of the loaded weight, as the kernel of beam b.
LoadedConv(b) ==
    [ C |-> enh.C,
      real |-> WeightTensor("w[0]", "real", enh.C, b),
      imag |-> WeightTensor("w[1]", "imag", enh.C, b) ]

\* C23: after TimeInvariantEnh or TimeInvariantAttEnh is built with a
\* pretrained weight of matching shape, the spatial convolution in forward
\* uses the loaded real part w[0] and imaginary part w[1], not the initial
\* weights.
C23_LoadedWeightUsed ==
    BuiltWithWeight =>
        /\ enh.conv.real.weight = "w[0]" /\ enh.conv.imag.weight = "w[1]"
        /\ \A k \in 1..Len(enh.calls) :
              (enh.calls[k].err = NoErr) =>
                  \A b \in 1..enh.B : enh.calls[k].used[b] = LoadedConv(b)

\* C24: TimeVariantEnh.forward, for every input with the configured number
\* of channels, returns features of shape N x T x (B * D); its last view
\* never fails, as in TimeInvariantEnh.forward.
C24_ForwardShape ==
    \A k \in 1..Len(enh.calls) :
        (/\ enh.cls \in {"TimeVariantEnh", "TimeInvariantEnh"}
         /\ enh.calls[k].x.C = enh.C) =>
            /\ enh.calls[k].err = NoErr
            /\ enh.calls[k].shape = <<1, 2, enh.B * SpectraFilters>>

\* TimeInvariantEnh.forward does return N x T x (B * D).
TimeInvariantShape ==
    \A k \in 1..Len(enh.calls) :
        (enh.cls = "TimeInvariantEnh" /\ enh.calls[k].x.C = enh.C) =>
            /\ enh.calls[k].err = NoErr
            /\ enh.calls[k].shape = <<1, 2, enh.B * SpectraFilters>>
\* TimeVariantEnh.forward fails exactly with several beams.
TimeVariantFailsWithBeams ==
    \A k \in 1..Len(enh.calls) :
        (enh.cls = "TimeVariantEnh" /\ enh.calls[k].x.C = enh.C) =>
            ((enh.calls[k].err = NoErr) <=> (enh.B = 1))


\* ------------------------------------------------- PhasenConv2d bins

Called2d == pconv.phase = "called"
Odd(k) == k % 2 = 1

Wanted == IF asr.kind = "transducer" THEN "NTD" ELSE "TND"
\* An encoder output in the layout wanted, transposed once if the encoder
\* emits the other layout and not at all otherwise.
HandedOver(e, x) ==
    /\ e.layout = Wanted
    /\ e.frames = Encoder(asr, x).frames
    /\ e.transposes = IF Encoder(asr, x).layout # Wanted THEN 1 ELSE 0

\* C26: for both values of is_xfmr_encoder the decoder of TransducerASR
\* receives the encoder output batch-first and the decoder of
\* XfmrTransducerASR receives it time-first, in forward and in _dec_prep:
\* one transpose when the encoder's layout differs, none otherwise.
C26_DecoderLayout ==
    (dphase = "built" /\ asr.kind \in {"transducer", "xfmr_transducer"}) =>
        /\ \A x \in Inputs :
              /\ HandedOver(forward_enc_out(asr, x), x)
              /\ HandedOver(dec_prep(asr, x), x)
        /\ (out.fn \in {"forward", "greedy", "beam"}) => (out.layout = Wanted)

\* A search on an XfmrTransducerASR with a recurrent encoder, and a forward
\* call on a TransducerASR with a transformer encoder: each needs the
\* transpose.
C26_Witness ==
    /\ dphase = "built"
    /\ \/ /\ asr.kind = "xfmr_transducer" /\ ~asr.is_xfmr_encoder
          /\ out.fn = "greedy" /\ out.layout = "TND"
          /\ \A x \in Inputs : dec_prep(asr, x).transposes = 1
       \/ /\ asr.kind = "transducer" /\ asr.is_xfmr_encoder
          /\ out.fn = "forward" /\ out.layout = "NTD"
          /\ \A x \in Inputs : forward_enc_out(asr, x).transposes = 1


\* ------------------------------------------------- encoder layers

\* The feed-forward branch with one dropout at its end.
FeedForwardOnce(fn, z) ==
    z \o <<"linear1", fn, "dropout", "linear2", "dropout">>
\* y = x + dropout(att(norm1(x))); out = y + ffn(norm2(y))
PreNorm(fn, x) ==
    LET y == <<x>> \o <<x, "norm1", "self_attn", "dropout", "+">>
    IN  y \o FeedForwardOnce(fn, y \o <<"norm2">>) \o <<"+">>
\* y = norm1(x + dropout(att(x))); out = norm2(y + ffn(y))
PostNorm(fn, x) ==
    LET y == <<x>> \o <<x, "self_attn", "dropout", "+", "norm1">>
    IN  y \o FeedForwardOnce(fn, y) \o <<"+", "norm2">>
LayerCalled == layer.phase = "called"
Conforms ==
    layer.out = IF layer.pre_norm THEN PreNorm(layer.fn, layer.args.src)
                ELSE PostNorm(layer.fn, layer.args.src)

\* C27: TransformerTorchEncoderLayer, TransformerRelEncoderLayer and
\* TransformerXLEncoderLayer apply the same operations for a given pre_norm:
\* pre-norm y = x + dropout(att(norm1(x))), out = y + ffn(norm2(y));
\* post-norm y = norm1(x + dropout(att(x))), out = norm2(y + ffn(y)); the
\* feed-forward branch ends with exactly one dropout.
C27_SameSubOperations ==
    LayerCalled => Conforms

\* The two layers built on ApsTransformerEncoderLayer conform, and so does
\* the torch layer in post-norm; in pre-norm the torch layer applies a
\* second dropout to its feed-forward branch.
OnlyTorchPreNormDiffers ==
    LayerCalled =>
        (Conforms <=>
            ~(layer.cls = "TransformerTorchEncoderLayer" /\ layer.pre_norm))
TorchPreNormDropsTwice ==
    (LayerCalled /\ layer.cls = "TransformerTorchEncoderLayer"
        /\ layer.pre_norm) =>
        LET n == Len(layer.out)
        IN  SubSeq(layer.out, n - 3, n) = <<"linear2", "dropout", "dropout", "+">>

\* ------------------------------------------------- C28

\* How often an operation ran in the current (or the last finished) call.
Times(a) == Cardinality({i \in 1..Len(trace) : trace[i] = a})

\* The stats as handed to reporter.update: the state right after line 142.
Reported == pc = "sched"

\* C28: train_one_step returns True exactly when the optimizer step ran in
\* that call; reporter.update and the step-level scheduler update each run
\* exactly once in a call that returns True and not at all in a call that
\* returns False (and never twice in any call); the reported stats hold a
\* norm entry only when gradient clipping is enabled.
C28_ReturnMatchesStep ==
    /\ ret # "none" => ((ret = "True") <=> Ran("step"))
    /\ ret = "True" => (Times("report") = 1 /\ Times("sched") = 1
                         /\ Times("step") = 1)
    /\ ret = "False" => (Times("report") = 0 /\ Times("sched") = 0)
    /\ Times("report") <= 1 /\ Times("sched") <= 1
    /\ Reported => (stats.norm # Absent => cfg.clip_gradient)

\* A call that stepped with clipping off, at the moment its stats are
\* reported without a norm entry.
C28_Witness ==
    /\ Reported
    /\ Ran("step")
    /\ ~cfg.clip_gradient
    /\ stats.norm = Absent
    /\ stats.rate # Absent

\* ------------------------------------------------- C29

\* The gradient the optimizer step of the current call may use: the one of
\* this call's backward pass on this call's batch, clipped when clipping is on.
ThisCallGrad ==
    IF cfg.clip_gradient
    THEN ClippedGrad(Backward(pre, egs))
    ELSE Backward(pre, egs)

\* C29: gradients never carry over between calls of train_one_step: every
\* call starts with zeroed gradients, the backward pass leaves the gradient
\* of this call's batch alone, and the optimizer step uses that gradient
\* only, whatever an earlier call (one skipped for a non-finite norm
\* included) left behind.
C29_NoGradientCarryOver ==
    [][ /\ (pc = "idle" /\ pc' = "forward") => grad' = Fin(0)
        /\ (pc = "check_loss" /\ pc' = "clip") =>
              grad' = Backward(param, egs)
        /\ (pc = "check_norm" /\ pc' = "noise") =>
              /\ grad = ThisCallGrad
              /\ param' = OptimizerStep(param, ThisCallGrad, optimizer,
                                         lr_scheduler) ]_vars

\* A later call has just stepped on a finite gradient of its own, after an
\* earlier call was skipped for a non-finite norm with its backward done.
C29_Witness ==
    /\ norm_skipped
    /\ cfg.clip_gradient
    /\ pc = "noise"
    /\ isfinite(grad)
    /\ grad # Fin(0)
    /\ grad = ThisCallGrad

\* ------------------------------------------------- C30

StackBuilt == stack.phase \in {"built", "called"}

\* A layer is a copy of the template: the same class, the same places filled,
\* and the same references falling together.
CopyOf(l, t) ==
    /\ l.cls = t.cls
    /\ (l.rel_u = NoParam) = (t.rel_u = NoParam)
    /\ (l.rel_v = NoParam) = (t.rel_v = NoParam)
    /\ (l.rel_u = l.rel_v) = (t.rel_u = t.rel_v)

\* C30: an ApsTransformerEncoder holds exactly num_layers layers, each an
\* independent deep copy of the template: no parameter object is shared
\* between two layers, nor with the template (rel_u and rel_v passed to a
\* TransformerXLEncoderLayer template included); forward applies the layers
\* once each in index order with the same keyword arguments, and the final
\* norm after them exactly when one is configured.
C30_IndependentLayersInOrder ==
    StackBuilt =>
        /\ Len(stack.layers) = stack.num_layers
        /\ \A i \in 1..Len(stack.layers) :
               /\ CopyOf(stack.layers[i], stack.template)
               /\ Params(stack.layers[i]) \cap Params(stack.template) = {}
               /\ \A j \in 1..Len(stack.layers) :
                      i # j => Params(stack.layers[i])
                                   \cap Params(stack.layers[j]) = {}
        /\ stack.phase = "called" =>
               LET n == stack.num_layers
                   last == Len(stack.output)
               IN  /\ last = n + (IF stack.nrm # "None" THEN 1 ELSE 0)
                   /\ \A i \in 1..n :
                          stack.output[i] = [ op |-> stack.layers[i].linear1,
                                              kwargs |-> stack.kwargs ]
                   /\ stack.nrm # "None" => stack.output[last].op = NoParam

\* A stack of several copies of a TransformerXLEncoderLayer template that
\* was given rel_u and rel_v, called with a mask and with a final norm.
C30_Witness ==
    /\ stack.phase = "called"
    /\ stack.num_layers >= 2
    /\ stack.template.cls = "TransformerXLEncoderLayer"
    /\ stack.template.rel_u \in CallerParams
    /\ stack.template.rel_v \in CallerParams
    /\ stack.nrm # "None"
    /\ stack.kwargs.src_mask
    /\ Len(stack.output) = stack.num_layers + 1

====
